---- MODULE Spec2Model ----
(***************************************************************************)
(* x2node-records: the record types library construction pipeline.         *)
(*                                                                         *)
(* The model follows the latest revision of each source file:              *)
(*   src/lib/record-types-library-factory.js  lines 1-412                  *)
(*   src/lib/record-types-library.js          lines 1-144                  *)
(*   src/lib/properties-container.js          lines 576-1207               *)
(*   src/unnamed/part_004 (core extension)    lines 1-276                  *)
(*   src/unnamed/part_003 (module index)      lines 1-49                   *)
(*                                                                         *)
(* buildLibrary is one synchronous call.  Its top-level steps (extend the  *)
(* library, add each defined record type, run each library-complete        *)
(* handler, run each validator, return) are the actions; the recursive     *)
(* construction of one record type is an operator from context state to    *)
(* context state.  A thrown exception is the field err of the context      *)
(* state: once it is set every further operator returns its argument.      *)
(***************************************************************************)
EXTENDS Integers, Sequences, FiniteSets, TLC

VARIABLES
    factoryExtensions,  \* RecordTypesLibraryFactory._extensions (ids, core first)
    withArgs,           \* arguments of exports.with()
    withPos,            \* loop position of exports.with(): argument index
    withDep,            \* position in the current argument's requiredExtensions
    libraryDef,         \* definition given to buildLibrary
    ctx,                \* LibraryConstructionContext and the library under construction
    pc,                 \* position of buildLibrary
    addPos,             \* addRecordTypes: number of record types added so far
    handlers,           \* completeLibrary: local array handlers
    handlerPos,         \* completeLibrary: handlers.forEach position
    handlersCalled,     \* completeLibrary: local handlersCalled
    validatorPos,       \* validateLibrary: _validators.forEach position
    validatorsLen,      \* validateLibrary: length forEach captured at its start
    record,             \* the record given to the last PropertyPointer method
    invocation,         \* the last PropertyPointer method call and its arguments
    outcome             \* what that call returned or threw

vars == <<factoryExtensions, withArgs, withPos, withDep, libraryDef, ctx, pc,
          addPos, handlers, handlerPos, handlersCalled, validatorPos,
          validatorsLen, record, invocation, outcome>>

\* the variables of the property pointer calls
pointerVars == <<record, invocation, outcome>>

-----------------------------------------------------------------------------
(* Generic helpers *)

\* JavaScript undefined for string-valued attributes
UNDEF == "undef"

\* an absent optional structured attribute; a present one is <<value>>
None == <<>>

Some(x) == <<x>>

\* JavaScript truthiness of a string (the empty string is falsy)
TruthyName(n) == n /= UNDEF /\ n /= ""

\* JavaScript truthiness of a boolean-valued definition attribute
TruthyFlag(f) == f = "true"

Last(q) == q[Len(q)]

Front(q) == SubSeq(q, 1, Len(q) - 1)

Range(q) == {q[i] : i \in 1..Len(q)}

\* index of the first element of q equal to x, 0 if none
RECURSIVE IndexOfFrom(_, _, _)
IndexOfFrom(q, x, i) ==
    IF i > Len(q) THEN 0
    ELSE IF q[i] = x THEN i
    ELSE IndexOfFrom(q, x, i + 1)

IndexOf(q, x) == IndexOfFrom(q, x, 1)

-----------------------------------------------------------------------------
(* Definitions: a property definition, a nested object definition and a    *)
(* record type definition are JavaScript objects with the same attributes. *)
(* valueType is a sequence of tokens; <<>> is a missing valueType.         *)

NoDef ==
    [valueType |-> <<>>, role |-> UNDEF, optional |-> UNDEF,
     modifiable |-> UNDEF, viewOf |-> UNDEF, properties |-> None,
     subtypes |-> None, typePropertyName |-> UNDEF, SUBTYPE |-> FALSE]

\* an entry of a properties or subtypes map, kept in insertion order
Entry(n, d) == [n |-> n, d |-> d]

RecordTypeDef(props) == [NoDef EXCEPT !.properties = Some(props)]

\* Object.keys of an optional properties or subtypes map
EntryNames(m) ==
    IF m = None THEN <<>> ELSE [k \in 1..Len(m[1]) |-> m[1][k].n]

-----------------------------------------------------------------------------
(* Value type grammar *)

SimpleTypes == {"string", "number", "boolean", "datetime", "object"}

NoMatch == [ok |-> FALSE, type |-> UNDEF, target |-> <<>>]

\* the optional collection suffix of the pattern
SuffixLen(vt) ==
    IF Len(vt) > 0 /\ Last(vt) \in {"[]", "{}"} THEN 1 ELSE 0

\* a pattern without the collection suffix
MatchWithoutSuffix(vt) ==
    IF Len(vt) = 1 /\ vt[1] \in SimpleTypes
    THEN [ok |-> TRUE, type |-> vt[1], target |-> <<>>]
    ELSE IF Len(vt) >= 4 /\ vt[1] = "ref" /\ vt[2] = "(" /\ Last(vt) = ")"
    THEN [ok |-> TRUE, type |-> "ref", target |-> SubSeq(vt, 3, Len(vt) - 1)]
    ELSE NoMatch

\* VALUE_TYPE_RE.exec(valueType): capture groups 1/2 (type) and 3 (target)
VALUE_TYPE_RE(vt) ==
    LET body == SubSeq(vt, 1, Len(vt) - SuffixLen(vt))
    IN  IF Len(body) = 1 /\ body[1] \in SimpleTypes
        THEN [ok |-> TRUE, type |-> body[1], target |-> <<>>]
        ELSE IF /\ Len(body) >= 4
                /\ body[1] = "ref" /\ body[2] = "(" /\ Last(body) = ")"
                /\ \A i \in 3..(Len(body) - 1) : body[i] /= " "
        THEN [ok |-> TRUE, type |-> "ref",
              target |-> SubSeq(body, 3, Len(body) - 1)]
        ELSE NoMatch

\* String.prototype.split('|') on the reference target
RECURSIVE SplitTargets(_)
SplitTargets(t) ==
    LET bar == IndexOf(t, "|")
    IN  IF bar = 0 THEN <<t>>
        ELSE <<SubSeq(t, 1, bar - 1)>> \o SplitTargets(SubSeq(t, bar + 1, Len(t)))

\* a target segment as a record type name
TargetName(seg) ==
    IF Len(seg) = 0 THEN ""
    ELSE IF Len(seg) = 1 THEN seg[1]
    ELSE "?"

\* 'ref(' + refTarget + ')'
RefValueType(name) ==
    IF name = "" THEN <<"ref", "(", ")">> ELSE <<"ref", "(", name, ")">>

-----------------------------------------------------------------------------
(* Descriptors *)

\* identity of a properties container: owning record type and nested path
Cid(rt, path) == [rt |-> rt, path |-> path]

\* values of PropertyDescriptor._nestedProperties
NoNested == [k |-> "undefined"]

NullNested == [k |-> "null"]

\* a nested container created for (and owned by) the property
OwnNested(c) == [k |-> "own", c |-> c]

\* the record type descriptor of the library with this name
RefNested(name) == [k |-> "recordType", name |-> name]

\* the _nestedProperties object of the base property of a view
ViewNested(base) == [k |-> "viewOf", of |-> base]

\* names every JavaScript object inherits from Object.prototype
ObjectPrototypeNames == {"constructor", "toString", "__proto__"}

\* this._propertyDescs[propName] read as a condition: _propertyDescs is a
\* plain object, so an inherited name gives a value that is not a descriptor
Truthy(c, propName) ==
    propName \in DOMAIN c.propertyDescs \/ propName \in ObjectPrototypeNames

\* new PropertiesContainer(recordTypeName, nestedPath, containerDef, parent);
\* invalid is the constructor's throw, _defaultModifiable is never passed
PropertiesContainer(recordTypeName, nestedPath, containerDef) ==
    LET poly == containerDef.subtypes /= None
        asObject == poly /\ (nestedPath = <<>> \/
                        (Len(containerDef.valueType) > 0
                            /\ containerDef.valueType[1] = "object"))
        asRef == poly /\ ~asObject /\ Len(containerDef.valueType) > 0
                    /\ containerDef.valueType[1] = "ref"
    IN  [recordTypeName |-> recordTypeName,
         nestedPath |-> nestedPath,
         definition |-> containerDef,
         defaultModifiable |-> FALSE,
         propNames |-> <<>>,
         propertyDescs |-> <<>>,
         isPolymorphObject |-> asObject,
         isPolymorphRef |-> asRef,
         subtypes |-> <<>>,
         typePropertyName |->
             IF asObject THEN containerDef.typePropertyName ELSE UNDEF,
         idPropName |-> UNDEF,
         wraps |-> <<>>,
         invalid |-> asRef /\ containerDef.properties /= None]

ContainerCid(c) == Cid(c.recordTypeName, c.nestedPath)

\* PropertiesContainer.hasProperty
hasProperty(c, propName) == propName \in DOMAIN c.propertyDescs

\* new PropertyDescriptor(ctx, container, propName, propDef, viewOfDesc);
\* viewOf names the base descriptor (UNDEF: none), invalid is the throw
PropertyDescriptor(container, propName, propDef, viewOf) ==
    LET match == VALUE_TYPE_RE(propDef.valueType)
        isArray == Len(propDef.valueType) > 0 /\ Last(propDef.valueType) = "[]"
        isMap == Len(propDef.valueType) > 0 /\ Last(propDef.valueType) = "{}"
        isScalar == ~isArray /\ ~isMap
        isId == propDef.role = "id"
    IN  [name |-> propName,
         container |-> ContainerCid(container),
         definition |-> propDef,
         viewOfDesc |-> viewOf,
         polymorphObjectType |-> propName = container.typePropertyName,
         subtype |-> propDef.SUBTYPE,
         scalarValueType |-> match.type,
         refTarget |-> match.target,
         isArray |-> isArray,
         isMap |-> isMap,
         isScalar |-> isScalar,
         isId |-> isId,
         optional |->
             IF propDef.optional = UNDEF
             THEN (IF isScalar THEN "false" ELSE "true")
             ELSE propDef.optional,
         modifiable |->
             IF viewOf = UNDEF /\ propDef.modifiable /= UNDEF
             THEN TruthyFlag(propDef.modifiable)
             ELSE ~isId /\ viewOf = UNDEF /\ container.defaultModifiable,
         nestedProperties |-> NoNested,
         wraps |-> <<>>,
         invalid |-> ~match.ok]

-----------------------------------------------------------------------------
(* Construction context *)

\* which array ctxHandlers refers to
Bucket(b, i) == [b |-> b, i |-> i]

NullBucket == Bucket("null", 0)

\* a registered handler or validator (a closure): id is its registration
\* number, ext the position of the registering extension, kind what it does,
\* cid/prop the descriptor it closes over, gen how many handlers deep it was
\* registered, from the function that registered it, to the array it is in
Handler(id, kind, ext, cid, prop, gen, from, to) ==
    [id |-> id, kind |-> kind, ext |-> ext, cid |-> cid, prop |-> prop,
     gen |-> gen, from |-> from, to |-> to]

\* an entry of the trace of the build
Event(t, q, ext, id, cid, name, arg, res) ==
    [t |-> t, q |-> q, ext |-> ext, id |-> id, cid |-> cid, name |-> name,
     arg |-> arg, res |-> res]

NoCid == Cid(UNDEF, <<>>)

\* new RecordTypesLibrary(libraryDef)
RecordTypesLibrary ==
    [names |-> <<>>, recordTypeDescs |-> <<>>, definedRecordTypeNames |-> <<>>,
     wraps |-> <<>>]

\* new LibraryConstructionContext(extensions)
LibraryConstructionContext(extensions) ==
    [extensions |-> extensions,
     validators |-> <<>>,
     onLibraryCompleteHandlersPlan |->
         [ctxHandlers |-> NullBucket,
          byProperties |-> [i \in 1..Len(extensions) |-> <<>>],
          byContainers |-> [i \in 1..Len(extensions) |-> <<>>],
          byLibrary |-> <<>>],
     onContainerCompleteHandlersPlansStack |-> <<>>,
     inContainer |-> FALSE,
     completingContainer |-> 0,
     completingLibrary |-> FALSE,
     recordTypes |-> RecordTypesLibrary,
     cur |-> <<>>,
     ret |-> PropertiesContainer(UNDEF, <<>>, NoDef),
     err |-> "",
     nreg |-> 0,
     log |-> <<>>]

Log(s, e) == [s EXCEPT !.log = Append(@, e)]

\* throw new X2UsageError(msg)
Throw(s, msg) ==
    [Log(s, Event("throw", msg, 0, 0, NoCid, "", <<>>, <<>>)) EXCEPT !.err = msg]

\* throw of an error whose message names a property and its record type
ThrowAt(s, msg, cid, propName) ==
    [Log(s, Event("throw", msg, 0, 0, cid, propName, <<>>, <<>>)) EXCEPT !.err = msg]

Depth(s) == Len(s.onContainerCompleteHandlersPlansStack)

TopPlan(s) == s.onContainerCompleteHandlersPlansStack[Depth(s)]

\* the container of the plan at stack position fi
ContainerAt(s, fi) == s.onContainerCompleteHandlersPlansStack[fi].container

SetContainerAt(s, fi, c) ==
    [s EXCEPT !.onContainerCompleteHandlersPlansStack[fi].container = c]

\* the property descriptor being passed through the extensions
CurProp(s) == Last(s.cur)

SetCurProp(s, d) == [s EXCEPT !.cur[Len(s.cur)] = d]

\* a registration that puts the validator in front of the earlier ones
onLibraryValidationFront(s, kind, ext, cid, prop, from) ==
    IF s.err /= "" THEN s
    ELSE
    LET h == Handler(s.nreg + 1, kind, ext, cid, prop, 0, from, NullBucket)
    IN  Log([s EXCEPT !.validators = <<h>> \o @, !.nreg = @ + 1],
            Event("reg", "validator", ext, h.id, cid, prop, <<>>, <<>>))

\* ctx.onLibraryValidation(validator)
onLibraryValidation(s, kind, ext, cid, prop, from) ==
    IF s.err /= "" THEN s
    ELSE
    LET h == Handler(s.nreg + 1, kind, ext, cid, prop, 0, from, NullBucket)
    IN  Log([s EXCEPT !.validators = Append(@, h), !.nreg = @ + 1],
            Event("reg", "validator", ext, h.id, cid, prop, <<>>, <<>>))

\* ctx.onLibraryComplete(handler): push on the array ctxHandlers refers to
onLibraryComplete(s, kind, ext, cid, prop, gen, from) ==
    IF s.err /= "" THEN s
    ELSE
    LET to == s.onLibraryCompleteHandlersPlan.ctxHandlers
        h == Handler(s.nreg + 1, kind, ext, cid, prop, gen, from, to)
        s1 == [s EXCEPT !.nreg = @ + 1]
        s2 == IF to.b = "byProperties"
              THEN [s1 EXCEPT !.onLibraryCompleteHandlersPlan.byProperties[to.i]
                                  = Append(@, h)]
              ELSE IF to.b = "byContainers"
              THEN [s1 EXCEPT !.onLibraryCompleteHandlersPlan.byContainers[to.i]
                                  = Append(@, h)]
              ELSE [s1 EXCEPT !.onLibraryCompleteHandlersPlan.byLibrary
                                  = Append(@, h)]
    IN  Log(s2, Event("reg", "library", ext, h.id, cid, prop,
                      <<to.b, to.i>>, <<>>))

\* ctx.onContainerComplete(handler): push on the ctxHandlers array of the
\* plan on top of the stack
onContainerComplete(s, kind, ext, gen, from) ==
    IF s.err /= "" THEN s
    ELSE IF ~s.inContainer THEN Throw(s, "Wrong invocation.")
    ELSE
    LET top == Depth(s)
        cid == ContainerCid(ContainerAt(s, top))
        to == TopPlan(s).ctxHandlers
        h == Handler(s.nreg + 1, kind, ext, cid, "", gen, from, to)
        s1 == [s EXCEPT !.nreg = @ + 1]
        s2 == IF to.b = "byProperties"
              THEN [s1 EXCEPT
                      !.onContainerCompleteHandlersPlansStack[top].byProperties[to.i]
                          = Append(@, h)]
              ELSE [s1 EXCEPT
                      !.onContainerCompleteHandlersPlansStack[top].byContainer
                          = Append(@, h)]
    IN  Log(s2, Event("reg", "container", ext, h.id, cid, from,
                      <<to.b, to.i>>, <<>>))

-----------------------------------------------------------------------------
(* Extensions.  The core extension is part of the library; the others are  *)
(* a catalogue of extensions that use the extension interface in every way *)
(* the claims speak of.  A hook or handler body is a sequence of effects.  *)

\* the handler re-registration depth of the catalogue's extensions
MaxGen == 1

Wrap == [e |-> "wrap"]

RegContainer == [e |-> "onContainerComplete"]

RegLibrary == [e |-> "onLibraryComplete"]

RegValidator == [e |-> "onLibraryValidation"]

ThrowError == [e |-> "throw"]

AddType(n, d) == [e |-> "addRecordType", n |-> n, d |-> d]

AddHidden(n, d) == [e |-> "addHiddenProperty", n |-> n, d |-> d]

NoExt ==
    [extendRecordTypesLibrary |-> None,
     extendPropertiesContainer |-> None,
     extendPropertyDescriptor |-> None,
     containerHandler |-> <<>>,
     libraryHandler |-> <<>>,
     validator |-> <<>>,
     requiredExtensions |-> <<>>]

IdDef == [NoDef EXCEPT !.valueType = <<"number">>, !.role = "id"]

StringDef == [NoDef EXCEPT !.valueType = <<"string">>]

ObjectDef(props) ==
    [NoDef EXCEPT !.valueType = <<"object">>, !.properties = Some(props)]

RefDef(target) == [NoDef EXCEPT !.valueType = RefValueType(target)]

\* the record type an extension adds during library completion
AddedTypeDef == RecordTypeDef(<<Entry("id", IdDef), Entry("back", RefDef("A"))>>)

Ext(name) ==
    CASE name = "Wrap" ->
            [NoExt EXCEPT !.extendRecordTypesLibrary = Some(<<Wrap>>),
                          !.extendPropertiesContainer = Some(<<Wrap>>),
                          !.extendPropertyDescriptor = Some(<<Wrap>>)]
      [] name = "Reg" ->
            [NoExt EXCEPT
                !.extendRecordTypesLibrary = Some(<<RegLibrary, RegValidator>>),
                !.extendPropertiesContainer =
                    Some(<<RegContainer, RegLibrary, RegValidator>>),
                !.extendPropertyDescriptor =
                    Some(<<RegContainer, RegLibrary, RegValidator>>)]
      [] name = "Again" ->
            [NoExt EXCEPT
                !.extendRecordTypesLibrary = Some(<<RegLibrary>>),
                !.extendPropertyDescriptor = Some(<<RegContainer>>),
                !.containerHandler = <<RegContainer>>,
                !.libraryHandler = <<RegLibrary, RegValidator>>]
      [] name = "Adder" ->
            [NoExt EXCEPT
                !.extendRecordTypesLibrary = Some(<<RegLibrary>>),
                !.libraryHandler = <<AddType("C", AddedTypeDef)>>]
      [] name = "DupAdder" ->
            [NoExt EXCEPT
                !.extendRecordTypesLibrary = Some(<<RegLibrary>>),
                !.libraryHandler = <<AddType("A", AddedTypeDef)>>]
      [] name = "EarlyAdder" ->
            [NoExt EXCEPT
                !.extendRecordTypesLibrary =
                    Some(<<AddType("C", AddedTypeDef)>>)]
      [] name = "LateAdder" ->
            [NoExt EXCEPT
                !.extendRecordTypesLibrary = Some(<<RegValidator>>),
                !.validator = <<AddType("C", AddedTypeDef)>>]
      [] name = "Hidden" ->
            [NoExt EXCEPT
                !.extendPropertiesContainer = Some(<<RegContainer>>),
                !.containerHandler =
                    <<AddHidden("hid", ObjectDef(<<Entry("x", StringDef)>>))>>]
      [] name = "HiddenScalar" ->
            [NoExt EXCEPT
                !.extendPropertiesContainer = Some(<<RegContainer>>),
                !.containerHandler = <<AddHidden("h2", StringDef)>>]
      [] name = "HiddenOutside" ->
            [NoExt EXCEPT
                !.extendPropertiesContainer =
                    Some(<<AddHidden("h2", StringDef)>>)]
      [] name = "EarlyContainer" ->
            [NoExt EXCEPT
                !.extendRecordTypesLibrary = Some(<<RegContainer>>)]
      [] name = "ThrowContainerHook" ->
            [NoExt EXCEPT !.extendPropertiesContainer = Some(<<ThrowError>>)]
      [] name = "ThrowPropertyHook" ->
            [NoExt EXCEPT !.extendPropertyDescriptor = Some(<<ThrowError>>)]
      [] name = "ThrowContainerHandler" ->
            [NoExt EXCEPT
                !.extendPropertiesContainer = Some(<<RegContainer>>),
                !.containerHandler = <<ThrowError>>]
      [] name = "ThrowLibraryHandler" ->
            [NoExt EXCEPT
                !.extendRecordTypesLibrary = Some(<<RegLibrary>>),
                !.libraryHandler = <<ThrowError>>]
      [] name = "ThrowValidator" ->
            [NoExt EXCEPT
                !.extendRecordTypesLibrary = Some(<<RegValidator>>),
                !.validator = <<ThrowError>>]
      [] name = "Revalidate" ->
            [NoExt EXCEPT
                !.extendRecordTypesLibrary = Some(<<RegValidator>>),
                !.validator = <<RegValidator>>]
      [] name = "NeedsWrap" ->
            [NoExt EXCEPT
                !.extendPropertiesContainer = Some(<<Wrap>>),
                !.requiredExtensions = <<"Wrap">>]
      [] name = "NeedsBoth" ->
            [NoExt EXCEPT
                !.extendPropertyDescriptor = Some(<<Wrap>>),
                !.requiredExtensions = <<"Wrap", "Reg">>]
      [] OTHER -> NoExt

-----------------------------------------------------------------------------
(* Access to descriptors stored in the library *)

\* RecordTypesLibrary.hasRecordType
hasRecordType(s, name) == name \in DOMAIN s.recordTypes.recordTypeDescs

\* the container with nested path `path` below container c
RECURSIVE ContainerIn(_, _)
ContainerIn(c, path) ==
    IF path = <<>> THEN c
    ELSE ContainerIn(c.propertyDescs[path[1]].nestedProperties.c, Tail(path))

\* the stored container a closure refers to
ContainerOf(s, cid) ==
    ContainerIn(s.recordTypes.recordTypeDescs[cid.rt], cid.path)

\* the stored property descriptor a closure refers to
PropertyOf(s, cid, prop) == ContainerOf(s, cid).propertyDescs[prop]

\* propDesc._nestedProperties = v, for the descriptor at path/prop below c
RECURSIVE SetNestedIn(_, _, _, _)
SetNestedIn(c, path, prop, v) ==
    IF path = <<>>
    THEN [c EXCEPT !.propertyDescs[prop].nestedProperties = v]
    ELSE [c EXCEPT !.propertyDescs[path[1]].nestedProperties.c =
                        SetNestedIn(@, Tail(path), prop, v)]

-----------------------------------------------------------------------------
(* The construction pipeline *)

\* A call of one of the three functions through which the construction of a
\* container re-enters itself: the body of an extension's function,
\* PropertiesContainer.addProperty and ctx.createPropertiesContainer
RECURSIVE Invoke(_, _)

RunBody(i, effects, where, gen) ==
    [f |-> "body", i |-> i, effects |-> effects, where |-> where, gen |-> gen]

AddProperty(fi, propName, propDef, viewOf) ==
    [f |-> "addProperty", fi |-> fi, propName |-> propName,
     propDef |-> propDef, viewOf |-> viewOf]

CreatePropertiesContainer(containerPropDesc, containerDef) ==
    [f |-> "createPropertiesContainer", containerPropDesc |-> containerPropDesc,
     containerDef |-> containerDef]

RECURSIVE RunEffects(_, _, _, _, _)
RECURSIVE extendContainerFrom(_, _)
RECURSIVE extendPropertyFrom(_, _)
RECURSIVE extendPropertyDescriptor(_, _)
RECURSIVE createPropertiesContainer(_, _, _)
RECURSIVE addProperties(_)
RECURSIVE AddNonViews(_, _, _, _)
RECURSIVE AddViews(_, _, _, _)
RECURSIVE AddSubtypes(_, _, _, _)
RECURSIVE AddRefTargets(_, _, _, _)
RECURSIVE addProperty(_, _, _, _, _)
RECURSIVE completeContainer(_)
RECURSIVE CompleteContainerPasses(_, _)
RECURSIVE CallContainerHandlers(_, _, _, _)
RECURSIVE RecordTypesLibrary_addRecordType(_, _, _)
RECURSIVE addRecordType(_, _, _)
RECURSIVE addHiddenProperty(_, _, _)

\* the id scan the core extension registers with onContainerComplete
RECURSIVE FindIdProperty(_, _, _)
FindIdProperty(container, i, idPropName) ==
    IF i > Len(container.propNames) THEN [dup |-> FALSE, name |-> idPropName]
    ELSE LET propName == container.propNames[i]
         IN  IF container.propertyDescs[propName].isId
             THEN IF TruthyName(idPropName)
                  THEN [dup |-> TRUE, name |-> idPropName]
                  ELSE FindIdProperty(container, i + 1, propName)
             ELSE FindIdProperty(container, i + 1, idPropName)

CoreContainerComplete(s, fi) ==
    LET container == ContainerAt(s, fi)
        found == FindIdProperty(container, 1, UNDEF)
    IN  IF found.dup THEN Throw(s, "has more than one id property.")
        ELSE IF TruthyName(found.name)
        THEN SetContainerAt(s, fi, [container EXCEPT !.idPropName = found.name])
        ELSE s

\* CoreExtention.extendPropertiesContainer
extendPropertiesContainer(s, i) ==
    LET cid == ContainerCid(ContainerAt(s, Depth(s)))
    IN  onLibraryValidation(
            onContainerComplete(s, "idScan", i, 0, "extendPropertiesContainer"),
            "container", i, cid, "", "extendPropertiesContainer")

\* the body of an extension's hook, handler or validator: its effects in
\* order; where tells which function runs, gen the handler's depth
RunEffects(s, i, effects, where, gen) ==
    IF s.err /= "" \/ effects = <<>> THEN s
    ELSE
    LET eff == Head(effects)
        top == Depth(s)
        s1 ==
          CASE eff.e = "wrap" ->
                 IF where = "extendRecordTypesLibrary"
                 THEN [s EXCEPT !.recordTypes.wraps = Append(@, i)]
                 ELSE IF where = "extendPropertiesContainer"
                 THEN [s EXCEPT
                         !.onContainerCompleteHandlersPlansStack[top].container.wraps
                             = Append(@, i)]
                 ELSE IF where = "extendPropertyDescriptor"
                 THEN SetCurProp(s, [CurProp(s) EXCEPT !.wraps = Append(@, i)])
                 ELSE s
            [] eff.e = "onContainerComplete" ->
                 IF where = "containerHandler" /\ gen >= MaxGen THEN s
                 ELSE onContainerComplete(s, "ext", i,
                          IF where = "containerHandler" THEN gen + 1 ELSE 0, where)
            [] eff.e = "onLibraryComplete" ->
                 IF where = "libraryHandler" /\ gen >= MaxGen THEN s
                 ELSE onLibraryComplete(s, "ext", i, NoCid, "",
                          IF where = "libraryHandler" THEN gen + 1 ELSE 0, where)
            [] eff.e = "onLibraryValidation" ->
                 onLibraryValidation(s, "ext", i, NoCid, "", where)
            [] eff.e = "addRecordType" -> addRecordType(s, eff.n, eff.d)
            [] eff.e = "addHiddenProperty" ->
                 \* only to the container of a record type
                 IF ContainerAt(s, top).nestedPath /= <<>> THEN s
                 ELSE addHiddenProperty(
                          Log(s, Event("addHiddenProperty", where, i, 0,
                                       ContainerCid(ContainerAt(s, top)), eff.n,
                                       <<hasProperty(ContainerAt(s, top), eff.n)>>,
                                       <<>>)),
                          eff.n, eff.d)
            [] eff.e = "throw" -> Throw(s, "extension error")
            [] OTHER -> s
    IN  RunEffects(s1, i, Tail(effects), where, gen)

\* a lookup that finds only the record types added before the referring one
LookupDefinedBefore(s, h) ==
    LET target == TargetName(PropertyOf(s, h.cid, h.prop).refTarget)
        names == s.recordTypes.names
    IN  IF IndexOf(names, target) = 0
               \/ IndexOf(names, target) >= IndexOf(names, h.cid.rt)
        THEN Throw(s, "unknown reference target record type.")
        ELSE [s EXCEPT !.recordTypes.recordTypeDescs[h.cid.rt] =
                          SetNestedIn(@, h.cid.path, h.prop, RefNested(target))]

\* a lookup that does not check that the target exists
LookupUnchecked(s, h) ==
    [s EXCEPT !.recordTypes.recordTypeDescs[h.cid.rt] =
        SetNestedIn(@, h.cid.path, h.prop,
            RefNested(TargetName(PropertyOf(s, h.cid, h.prop).refTarget)))]

\* the core extension's handler for a non-polymorphic reference property
CoreReferenceLookup(s, h) ==
    LET propDesc == PropertyOf(s, h.cid, h.prop)
        target == TargetName(propDesc.refTarget)
    IN  IF ~hasRecordType(s, target)
        THEN Throw(s, "unknown reference target record type.")
        ELSE [s EXCEPT !.recordTypes.recordTypeDescs[h.cid.rt] =
                          SetNestedIn(@, h.cid.path, h.prop, RefNested(target))]

\* propDesc._nestedProperties = the container createPropertiesContainer made
SetNestedProperties(s) ==
    IF s.err /= "" THEN s
    ELSE SetCurProp(s, [CurProp(s) EXCEPT !.nestedProperties = OwnNested(s.ret)])

\* CoreExtention.extendPropertyDescriptor, on the descriptor being extended
extendPropertyDescriptor(s, i) ==
    LET propDesc == CurProp(s)
        propDef == propDesc.definition
        refTargets == SplitTargets(propDesc.refTarget)
        \* reference or nested object
        Structured ==
          IF propDesc.scalarValueType = "ref"
          THEN IF Len(refTargets) > 1
               THEN LET d1 == [propDesc EXCEPT !.scalarValueType = "object",
                                               !.refTarget = <<>>]
                        supertypeDef ==
                            [propDef EXCEPT !.subtypes = Some(
                                [k \in 1..Len(refTargets) |->
                                    Entry(TargetName(refTargets[k]), NoDef)])]
                    IN  SetNestedProperties(Invoke(SetCurProp(s, d1),
                            CreatePropertiesContainer(d1, supertypeDef)))
               ELSE onLibraryComplete(s, "reference", i, propDesc.container,
                                      propDesc.name, 0, "extendPropertyDescriptor")
          ELSE IF propDesc.scalarValueType = "object"
          THEN IF propDesc.viewOfDesc /= UNDEF
               THEN SetCurProp(s, [propDesc EXCEPT
                        !.nestedProperties = ViewNested(propDesc.viewOfDesc)])
               ELSE IF propDef.properties = None /\ propDef.subtypes = None
               THEN Throw(s, "missing properties.")
               ELSE SetNestedProperties(Invoke(s,
                        CreatePropertiesContainer(propDesc, propDef)))
          ELSE s
        \* nested container for a collection of simple values
        Simple(s1) ==
          IF s1.err /= "" THEN s1
          ELSE
          LET d2 == CurProp(s1)
          IN  IF d2.scalarValueType /= "object" /\ d2.scalarValueType /= "ref"
              THEN IF d2.isScalar
                   THEN SetCurProp(s1, [d2 EXCEPT !.nestedProperties = NullNested])
                   ELSE SetNestedProperties(Invoke(s1,
                            CreatePropertiesContainer(d2,
                                RecordTypeDef(<<Entry("$value", [NoDef EXCEPT
                                    !.valueType = <<d2.scalarValueType>>])>>))))
              ELSE s1
    IN  onLibraryValidation(Simple(Structured), "property", i,
                            propDesc.container, propDesc.name,
                            "extendPropertyDescriptor")

RECURSIVE extendLibraryFrom(_, _)

\* a reduce that gives every hook the library it started with
extendLibraryFromOriginal(s, i) ==
    IF s.err /= "" \/ i > Len(s.extensions) THEN s
    ELSE
    LET hook == Ext(s.extensions[i]).extendRecordTypesLibrary
        Returned(r) ==
            IF r.err /= "" THEN r
            ELSE Log(r, Event("hook", "library", i, 0, NoCid, "",
                              <<>>, r.recordTypes.wraps))
    IN  extendLibraryFrom(
            IF s.extensions[i] = "Core" \/ hook = None THEN s
            ELSE Returned(Invoke([s EXCEPT !.recordTypes.wraps = <<>>],
                                 RunBody(i, hook[1],
                                         "extendRecordTypesLibrary", 0))),
            i + 1)

\* one step of the reduce of LibraryConstructionContext.extendLibrary
extendLibraryFrom(s, i) ==
    IF s.err /= "" \/ i > Len(s.extensions) THEN s
    ELSE
    LET hook == Ext(s.extensions[i]).extendRecordTypesLibrary
        arg == s.recordTypes.wraps
        Returned(r) ==
            IF r.err /= "" THEN r
            ELSE Log(r, Event("hook", "library", i, 0, NoCid, "",
                              arg, r.recordTypes.wraps))
    IN  extendLibraryFrom(
            IF s.extensions[i] = "Core" \/ hook = None THEN s
            ELSE Returned(Invoke(s, RunBody(i, hook[1],
                                     "extendRecordTypesLibrary", 0))),
            i + 1)

\* LibraryConstructionContext.extendLibrary
extendLibrary(s) ==
    extendLibraryFrom(
        [s EXCEPT !.onLibraryCompleteHandlersPlan.ctxHandlers =
                      Bucket("byLibrary", 0)], 1)

\* one step of the reduce of LibraryConstructionContext.extendContainer
extendContainerFrom(s, i) ==
    IF s.err /= "" \/ i > Len(s.extensions) THEN s
    ELSE
    LET top == Depth(s)
        s0 == [s EXCEPT
                 !.onLibraryCompleteHandlersPlan.ctxHandlers =
                     Bucket("byContainers", i),
                 !.onContainerCompleteHandlersPlansStack[top].ctxHandlers =
                     Bucket("byContainer", 0)]
        hook == Ext(s.extensions[i]).extendPropertiesContainer
        arg == ContainerAt(s0, top)
        Returned(r) ==
            IF r.err /= "" THEN r
            ELSE Log(r, Event("hook", "container", i, 0, ContainerCid(arg), "",
                              arg.wraps, ContainerAt(r, top).wraps))
    IN  extendContainerFrom(
            IF s.extensions[i] = "Core"
            THEN Returned(extendPropertiesContainer(s0, i))
            ELSE IF hook = None THEN s0
            ELSE Returned(Invoke(s0, RunBody(i, hook[1],
                                     "extendPropertiesContainer", 0))),
            i + 1)

\* LibraryConstructionContext.extendContainer
extendContainer(s, container) ==
    IF s.err /= "" THEN s
    ELSE
    LET plan == [ctxHandlers |-> NullBucket,
                 byProperties |-> [i \in 1..Len(s.extensions) |-> <<>>],
                 byContainer |-> <<>>,
                 container |-> container]
        s1 == [s EXCEPT !.inContainer = TRUE,
                        !.onContainerCompleteHandlersPlansStack = Append(@, plan)]
    IN  extendContainerFrom(
            Log(s1, Event("open", "", 0, 0, ContainerCid(container),
                          container.typePropertyName,
                          EntryNames(container.definition.properties),
                          IF container.isPolymorphObject \/ container.isPolymorphRef
                          THEN EntryNames(container.definition.subtypes)
                          ELSE <<>>)), 1)

\* one step of the reduce of LibraryConstructionContext.extendProperty
extendPropertyFrom(s, i) ==
    IF s.err /= "" \/ i > Len(s.extensions) THEN s
    ELSE
    LET top == Depth(s)
        s0 == [s EXCEPT
                 !.onLibraryCompleteHandlersPlan.ctxHandlers =
                     Bucket("byProperties", i),
                 !.onContainerCompleteHandlersPlansStack[top].ctxHandlers =
                     Bucket("byProperties", i)]
        hook == Ext(s.extensions[i]).extendPropertyDescriptor
        arg == CurProp(s0)
        Returned(r) ==
            IF r.err /= "" THEN r
            ELSE Log(r, Event("hook", "property", i, 0, arg.container, arg.name,
                              arg.wraps, CurProp(r).wraps))
    IN  extendPropertyFrom(
            IF s.extensions[i] = "Core"
            THEN Returned(extendPropertyDescriptor(s0, i))
            ELSE IF hook = None THEN s0
            ELSE Returned(Invoke(s0, RunBody(i, hook[1],
                                     "extendPropertyDescriptor", 0))),
            i + 1)

\* LibraryConstructionContext.extendProperty: the extended descriptor is
\* left on top of cur
extendProperty(s, propDesc) ==
    IF s.err /= "" THEN s
    ELSE extendPropertyFrom([s EXCEPT !.cur = Append(@, propDesc)], 1)

\* LibraryConstructionContext.createPropertiesContainer: the completed
\* container is left in ret
createPropertiesContainer(s, containerPropDesc, containerDef) ==
    LET container == PropertiesContainer(
                         containerPropDesc.container.rt,
                         Append(containerPropDesc.container.path,
                                containerPropDesc.name),
                         containerDef)
    IN  IF s.err /= "" THEN s
        ELSE IF container.invalid
        THEN Throw(s, "may not have properties definition attribute.")
        ELSE completeContainer(addProperties(extendContainer(s, container)))

\* the kind of property addProperty adds, for the trace
PropertyKind(s, fi, propDesc) ==
    IF s.completingContainer = fi THEN "hidden"
    ELSE IF propDesc.viewOfDesc /= UNDEF THEN "view"
    ELSE IF propDesc.subtype THEN "subtype"
    ELSE IF propDesc.polymorphObjectType THEN "type"
    ELSE "declared"

\* PropertiesContainer.addProperty, on the container of the plan at fi
addProperty(s, fi, propName, propDef, viewOf) ==
    IF s.err /= "" THEN s
    ELSE
    LET propDesc == PropertyDescriptor(ContainerAt(s, fi), propName, propDef, viewOf)
        kind == PropertyKind(s, fi, propDesc)
        \* this._propertyDescs[propName] = the extended descriptor
        Store(s1) ==
            IF s1.err /= "" THEN s1
            ELSE LET stored == CurProp(s1)
                     container == ContainerAt(s1, fi)
                 IN  Log(SetContainerAt(
                             [s1 EXCEPT !.cur = Front(@)], fi,
                             [container EXCEPT !.propertyDescs =
                                 (propName :> stored) @@ @]),
                         Event("prop", kind, 0, 0, ContainerCid(container),
                               propName, <<>>, stored.wraps))
    IN  IF propDesc.invalid
        THEN ThrowAt(s, "has missing or invalid valueType attribute.",
                     propDesc.container, propName)
        ELSE Store(extendProperty(s, propDesc))

\* addProperties: the loop over the non-view properties
AddNonViews(s, fi, propertyDefs, k) ==
    IF s.err /= "" \/ k > Len(propertyDefs) THEN s
    ELSE AddNonViews(
             IF propertyDefs[k].d.viewOf /= UNDEF THEN s
             ELSE Invoke(s, AddProperty(fi, propertyDefs[k].n,
                                        propertyDefs[k].d, UNDEF)),
             fi, propertyDefs, k + 1)

\* a view definition that does not inherit from the definition of its base
OwnOnly(own, base) == own

\* a definition attribute of a view: the view's own value, else the base's
Inherit(own, base) == IF own = UNDEF THEN base ELSE own

\* addProperties: the loop over the view properties
AddViews(s, fi, views, k) ==
    IF s.err /= "" \/ k > Len(views) THEN s
    ELSE
    LET propName == views[k].n
        propDef == views[k].d
        container == ContainerAt(s, fi)
        s1 ==
          IF ~Truthy(container, propDef.viewOf)
          THEN Throw(s, "is a view of a non-existent property.")
          ELSE IF ~hasProperty(container, propDef.viewOf)
          THEN \* Object.create(viewOfDesc._definition) of a non-descriptor
               Throw(s, "TypeError: Object prototype may only be an Object or null.")
          ELSE
          LET viewOfDesc == container.propertyDescs[propDef.viewOf]
              base == viewOfDesc.definition
              viewPropDef ==
                  [valueType |-> IF propDef.valueType = <<>>
                                 THEN base.valueType ELSE propDef.valueType,
                   role |-> Inherit(propDef.role, base.role),
                   optional |-> Inherit(propDef.optional, base.optional),
                   modifiable |-> Inherit(propDef.modifiable, base.modifiable),
                   viewOf |-> propDef.viewOf,
                   properties |-> base.properties,
                   subtypes |-> base.subtypes,
                   typePropertyName |->
                       Inherit(propDef.typePropertyName, base.typePropertyName),
                   SUBTYPE |-> base.SUBTYPE]
          IN  IF viewOfDesc.viewOfDesc /= UNDEF
              THEN Throw(s, "is a view of another view.")
              ELSE IF propDef.properties /= None \/ propDef.subtypes /= None
              THEN Throw(s, "is a view and may not override the nested object properties or subtypes.")
              ELSE Invoke(s, AddProperty(fi, propName, viewPropDef,
                                         viewOfDesc.name))
    IN  AddViews(s1, fi, views, k + 1)

\* a loop that lists the subtypes in the reverse of their definition order
AddSubtypesReversed(s, fi, subtypes, k) ==
    IF s.err /= "" \/ k > Len(subtypes) THEN s
    ELSE
    LET subtypeName == subtypes[k].n
        container == ContainerAt(s, fi)
        subtypePropDef ==
            [subtypes[k].d EXCEPT !.SUBTYPE = TRUE,
                                  !.valueType = <<"object">>,
                                  !.optional = "true"]
        s1 ==
          IF Truthy(container, subtypeName)
          THEN Throw(s, "shares name with one of the super-type properties.")
          ELSE Invoke(
                   SetContainerAt(s, fi,
                       [container EXCEPT !.propNames = Append(@, subtypeName),
                                         !.subtypes = <<subtypeName>> \o @]),
                   AddProperty(fi, subtypeName, subtypePropDef, UNDEF))
    IN  AddSubtypes(s1, fi, subtypes, k + 1)

\* addProperties: the subtype pseudo-properties of a polymorphic object
AddSubtypes(s, fi, subtypes, k) ==
    IF s.err /= "" \/ k > Len(subtypes) THEN s
    ELSE
    LET subtypeName == subtypes[k].n
        container == ContainerAt(s, fi)
        subtypePropDef ==
            [subtypes[k].d EXCEPT !.SUBTYPE = TRUE,
                                  !.valueType = <<"object">>,
                                  !.optional = "true"]
        s1 ==
          IF Truthy(container, subtypeName)
          THEN Throw(s, "shares name with one of the super-type properties.")
          ELSE Invoke(
                   SetContainerAt(s, fi,
                       [container EXCEPT !.propNames = Append(@, subtypeName),
                                         !.subtypes = Append(@, subtypeName)]),
                   AddProperty(fi, subtypeName, subtypePropDef, UNDEF))
    IN  AddSubtypes(s1, fi, subtypes, k + 1)

\* addProperties: the pseudo-properties of a polymorphic reference
AddRefTargets(s, fi, subtypes, k) ==
    IF s.err /= "" \/ k > Len(subtypes) THEN s
    ELSE
    LET refTarget == subtypes[k].n
        container == ContainerAt(s, fi)
        s1 == Invoke(
                  SetContainerAt(s, fi,
                      [container EXCEPT !.propNames = Append(@, refTarget),
                                        !.subtypes = Append(@, refTarget)]),
                  AddProperty(fi, refTarget,
                      [NoDef EXCEPT !.SUBTYPE = TRUE,
                                    !.valueType = RefValueType(refTarget),
                                    !.optional = "true"],
                      UNDEF))
    IN  AddRefTargets(s1, fi, subtypes, k + 1)

\* a type property definition that leaves the property modifiable
ModifiableTypePropertyDef ==
    [NoDef EXCEPT !.valueType = <<"string">>, !.modifiable = "true"]

\* addProperties: the definition of the type property of a polymorphic object
TypePropertyDef ==
    [NoDef EXCEPT !.valueType = <<"string">>, !.modifiable = "false"]

\* PropertiesContainer.addProperties, on the container just extended
addProperties(s) ==
    IF s.err /= "" THEN s
    ELSE
    LET fi == Depth(s)
        c0 == ContainerAt(s, fi)
        definition == c0.definition
        propertyDefs == IF definition.properties = None THEN <<>>
                        ELSE definition.properties[1]
        s1 == SetContainerAt(s, fi,
                  [c0 EXCEPT !.propNames =
                      @ \o [k \in 1..Len(propertyDefs) |-> propertyDefs[k].n]])
        views == SelectSeq(propertyDefs, LAMBDA e : e.d.viewOf /= UNDEF)
        typed == c0.typePropertyName /= UNDEF
        \* the hidden type property of a polymorphic object
        TypeProperty(s3) ==
            IF s3.err /= "" \/ ~typed THEN s3
            ELSE IF Truthy(ContainerAt(s3, fi), c0.typePropertyName)
            THEN Throw(s3, "contains a property with the same name as the type property.")
            ELSE Invoke(s3, AddProperty(fi, c0.typePropertyName,
                                        TypePropertyDef, UNDEF))
        Polymorph(s3) ==
            IF c0.isPolymorphObject
            THEN AddSubtypes(TypeProperty(s3), fi, definition.subtypes[1], 1)
            ELSE IF c0.isPolymorphRef
            THEN AddRefTargets(s3, fi, definition.subtypes[1], 1)
            ELSE s3
    IN  Polymorph(AddViews(AddNonViews(s1, fi, propertyDefs, 1), fi, views, 1))

\* completeContainer: handlers.forEach(handler => handler(container))
CallContainerHandlers(s, fi, hs, k) ==
    IF s.err /= "" \/ k > Len(hs) THEN s
    ELSE
    LET h == hs[k]
        s0 == Log(s, Event("call", "container", h.ext, h.id, h.cid, h.from,
                           <<h.to.b, h.to.i>>, <<>>))
        s1 == IF h.kind = "idScan" THEN CoreContainerComplete(s0, fi)
              ELSE Invoke(s0, RunBody(h.ext,
                              Ext(s0.extensions[h.ext]).containerHandler,
                              "containerHandler", h.gen))
    IN  CallContainerHandlers(s1, fi, hs, k + 1)

\* all the arrays of a sequence of arrays, concatenated
RECURSIVE Flatten(_)
Flatten(qs) == IF qs = <<>> THEN <<>> ELSE Head(qs) \o Flatten(Tail(qs))

\* a pass that calls the container-level handlers first
ContainerHandlersFirst(plan) == plan.byContainer \o Flatten(plan.byProperties)

\* a pass that forgets the container-level handlers
PropertyHandlersOnly(plan) == Flatten(plan.byProperties)

\* completeContainer: the local array handlers filled at the start of a pass
CollectedHandlers(plan) == Flatten(plan.byProperties) \o plan.byContainer

\* completeContainer: the do ... while (handlersCalled > 0) loop
CompleteContainerPasses(s, fi) ==
    IF s.err /= "" THEN s
    ELSE
    LET plan == s.onContainerCompleteHandlersPlansStack[fi]
        hs == CollectedHandlers(plan)
        s1 == Log([s EXCEPT
                 !.onContainerCompleteHandlersPlansStack[fi].byProperties =
                     [i \in 1..Len(s.extensions) |-> <<>>],
                 !.onContainerCompleteHandlersPlansStack[fi].byContainer = <<>>,
                 !.onContainerCompleteHandlersPlansStack[fi].ctxHandlers =
                     Bucket("byContainer", 0)],
                  Event("pass", "container", 0, 0,
                        ContainerCid(plan.container), "", <<>>, <<>>))
    IN  IF Len(hs) > 0
        THEN CompleteContainerPasses(CallContainerHandlers(s1, fi, hs, 1), fi)
        ELSE s1

\* LibraryConstructionContext.completeContainer, on the container of the
\* plan on top of the stack; the container is left in ret
completeContainer(s) ==
    IF s.err /= "" THEN s
    ELSE
    LET fi == Depth(s)
        Completed(s1) ==
            IF s1.err /= "" THEN s1
            ELSE LET container == ContainerAt(s1, fi)
                 IN  Log([s1 EXCEPT
                            !.completingContainer = 0,
                            !.onContainerCompleteHandlersPlansStack = Front(@),
                            !.inContainer = fi - 1 > 0,
                            !.ret = container],
                         Event("ret", "", 0, 0, ContainerCid(container), "",
                               <<>>, container.wraps))
    IN  Completed(CompleteContainerPasses(
                      [s EXCEPT !.completingContainer = fi], fi))

\* RecordTypesLibrary.addRecordType
RecordTypesLibrary_addRecordType(s, recordTypeName, recordTypeDef) ==
    LET \* this._recordTypeDescs[recordTypeName] = recordTypeDesc
        Stored(s1) ==
            IF s1.err /= "" THEN s1
            ELSE [s1 EXCEPT
                    !.recordTypes.recordTypeDescs =
                        (recordTypeName :> s1.ret) @@ @,
                    !.recordTypes.names =
                        IF hasRecordType(s1, recordTypeName) THEN @
                        ELSE Append(@, recordTypeName)]
    IN  Stored(completeContainer(addProperties(extendContainer(
            s, PropertiesContainer(recordTypeName, <<>>, recordTypeDef)))))

\* the trace entry of a call of ctx.addRecordType: the phase flag, whether the
\* library has the name, and the library's record type names at the call
Called(s, recordTypeName) ==
    Log(s, Event("addRecordType", "", 0, 0, Cid(recordTypeName, <<>>),
                 recordTypeName,
                 <<s.completingLibrary, hasRecordType(s, recordTypeName)>>,
                 s.recordTypes.names))

\* addRecordType without the check of the phase
addRecordTypeInAnyPhase(s, recordTypeName, recordTypeDef) ==
    IF s.err /= "" THEN s
    ELSE IF hasRecordType(s, recordTypeName)
    THEN Throw(Called(s, recordTypeName), "already exists.")
    ELSE RecordTypesLibrary_addRecordType(Called(s, recordTypeName),
                                          recordTypeName, recordTypeDef)

\* LibraryConstructionContext.addRecordType
addRecordType(s, recordTypeName, recordTypeDef) ==
    IF s.err /= "" THEN s
    ELSE IF ~s.completingLibrary
    THEN Throw(Called(s, recordTypeName), "Wrong invocation.")
    ELSE IF hasRecordType(s, recordTypeName)
    THEN Throw(Called(s, recordTypeName), "already exists.")
    ELSE RecordTypesLibrary_addRecordType(Called(s, recordTypeName),
                                          recordTypeName, recordTypeDef)

\* LibraryConstructionContext.addHiddenProperty
addHiddenProperty(s, propName, propDef) ==
    IF s.err /= "" THEN s
    ELSE IF s.completingContainer = 0 THEN Throw(s, "Wrong invocation.")
    ELSE IF hasProperty(ContainerAt(s, s.completingContainer), propName)
    THEN Throw(s, "already exists.")
    ELSE Invoke(s, AddProperty(s.completingContainer, propName, propDef, UNDEF))

Invoke(s, call) ==
    CASE call.f = "body" ->
           RunEffects(s, call.i, call.effects, call.where, call.gen)
      [] call.f = "addProperty" ->
           addProperty(s, call.fi, call.propName, call.propDef, call.viewOf)
      [] call.f = "createPropertiesContainer" ->
           createPropertiesContainer(s, call.containerPropDesc, call.containerDef)

-----------------------------------------------------------------------------
(* Handlers and validators run by completeLibrary and validateLibrary *)

\* the validator the core extension registers for every container (record
\* type names of the model contain no '#', factories are always functions)
CoreContainerValidator(s, h) ==
    LET container == ContainerOf(s, h.cid)
        isRecordType == container.nestedPath = <<>>
    IN  IF isRecordType /\ ~TruthyName(container.idPropName)
        THEN Throw(s, "does not have an id property.")
        ELSE IF (container.isPolymorphObject \/ container.isPolymorphRef)
                    /\ Len(container.subtypes) = 0
        THEN Throw(s, "does not have any subtypes.")
        ELSE IF container.isPolymorphObject /\ container.typePropertyName = UNDEF
        THEN Throw(s, "does not have type property name specified.")
        ELSE s

\* the validator the core extension registers for every property
CorePropertyValidator(s, h) ==
    LET propDesc == PropertyOf(s, h.cid, h.prop)
    IN  IF propDesc.isId /\
              (\/ ~propDesc.isScalar
               \/ propDesc.scalarValueType \notin {"number", "string"}
               \/ TruthyFlag(propDesc.optional)
               \/ propDesc.modifiable)
        THEN Throw(s, "id property must be a scalar, required, non-modifiable number or string.")
        ELSE IF propDesc.viewOfDesc /= UNDEF /\ propDesc.modifiable
        THEN Throw(s, "view may not be modifiable.")
        ELSE s

\* completeLibrary: handler(this._recordTypes)
CallLibraryHandler(s, h) ==
    LET s0 == Log(s, Event("call", "library", h.ext, h.id, h.cid, h.prop,
                           <<h.to.b, h.to.i>>, <<>>))
    IN  IF h.kind = "reference" THEN CoreReferenceLookup(s0, h)
        ELSE Invoke(s0, RunBody(h.ext, Ext(s0.extensions[h.ext]).libraryHandler,
                                "libraryHandler", h.gen))

\* validateLibrary: validator(this._recordTypes)
CallValidator(s, h) ==
    LET s0 == Log(s, Event("call", "validator", h.ext, h.id, h.cid, h.prop,
                           <<>>, <<>>))
    IN  IF h.kind = "container" THEN CoreContainerValidator(s0, h)
        ELSE IF h.kind = "property" THEN CorePropertyValidator(s0, h)
        ELSE Invoke(s0, RunBody(h.ext, Ext(s0.extensions[h.ext]).validator,
                                "validator", h.gen))

\* a pass that forgets the handlers registered from extendPropertiesContainer
DrainedWithoutContainers(s) ==
    Flatten(s.onLibraryCompleteHandlersPlan.byProperties)
        \o s.onLibraryCompleteHandlersPlan.byLibrary

\* completeLibrary: the handlers collected at the start of a pass
DrainedHandlers(s) ==
    Flatten(s.onLibraryCompleteHandlersPlan.byProperties)
        \o Flatten(s.onLibraryCompleteHandlersPlan.byContainers)
        \o s.onLibraryCompleteHandlersPlan.byLibrary

-----------------------------------------------------------------------------
(* exports.with(...extensions) *)

\* RecordTypesLibraryFactory.addExtension
addExtension(extensions, extension) == Append(extensions, extension)

WithRequired ==
    /\ pc = "with"
    /\ withPos <= Len(withArgs)
    /\ withDep < Len(Ext(withArgs[withPos]).requiredExtensions)
    /\ factoryExtensions' = addExtension(factoryExtensions,
            Ext(withArgs[withPos]).requiredExtensions[withDep + 1])
    /\ withDep' = withDep + 1
    /\ UNCHANGED <<withArgs, withPos, libraryDef, ctx, pc, addPos, handlers,
                   handlerPos, handlersCalled, validatorPos, validatorsLen>>
    /\ UNCHANGED pointerVars

WithExtension ==
    /\ pc = "with"
    /\ withPos <= Len(withArgs)
    /\ withDep = Len(Ext(withArgs[withPos]).requiredExtensions)
    /\ factoryExtensions' = addExtension(factoryExtensions, withArgs[withPos])
    /\ withPos' = withPos + 1
    /\ withDep' = 0
    /\ UNCHANGED <<withArgs, libraryDef, ctx, pc, addPos, handlers,
                   handlerPos, handlersCalled, validatorPos, validatorsLen>>
    /\ UNCHANGED pointerVars

WithReturn ==
    /\ pc = "with"
    /\ withPos > Len(withArgs)
    /\ pc' = "buildLibrary"
    /\ UNCHANGED <<factoryExtensions, withArgs, withPos, withDep, libraryDef,
                   ctx, addPos, handlers, handlerPos, handlersCalled,
                   validatorPos, validatorsLen>>
    /\ UNCHANGED pointerVars

-----------------------------------------------------------------------------
(* RecordTypesLibraryFactory.buildLibrary *)

\* a buildLibrary that goes on after an error
AfterIgnoringError(s, next) == next

\* where buildLibrary continues after a step that may have thrown
After(s, next) == IF s.err /= "" THEN "thrown" ELSE next

\* new LibraryConstructionContext, new RecordTypesLibrary, ctx.extendLibrary
BuildLibrary ==
    /\ pc = "buildLibrary"
    /\ ctx' = extendLibrary(LibraryConstructionContext(factoryExtensions))
    /\ pc' = After(ctx', "addRecordTypes")
    /\ UNCHANGED <<factoryExtensions, withArgs, withPos, withDep, libraryDef,
                   addPos, handlers, handlerPos, handlersCalled, validatorPos,
                   validatorsLen>>
    /\ UNCHANGED pointerVars

\* RecordTypesLibrary.addRecordTypes: this._definedRecordTypeNames.push
Defined(s, recordTypeName) ==
    IF s.err /= "" THEN s
    ELSE [s EXCEPT !.recordTypes.definedRecordTypeNames =
                       Append(@, recordTypeName)]

\* RecordTypesLibrary.addRecordTypes: one iteration of the loop
AddRecordTypes ==
    /\ pc = "addRecordTypes"
    /\ addPos < Len(libraryDef)
    /\ LET e == libraryDef[addPos + 1]
       IN  ctx' = Defined(RecordTypesLibrary_addRecordType(ctx, e.n, e.d), e.n)
    /\ pc' = After(ctx', "addRecordTypes")
    /\ addPos' = addPos + 1
    /\ UNCHANGED <<factoryExtensions, withArgs, withPos, withDep, libraryDef,
                   handlers, handlerPos, handlersCalled, validatorPos,
                   validatorsLen>>
    /\ UNCHANGED pointerVars

\* completeLibrary: entry, or the start of another pass of its loop: the
\* registered handlers are moved to the local array
CompleteLibraryPass ==
    /\ \/ pc = "addRecordTypes" /\ addPos = Len(libraryDef)
       \/ pc = "completeLibrary" /\ handlerPos = Len(handlers)
                                 /\ handlersCalled > 0
    /\ handlers' = DrainedHandlers(ctx)
    /\ ctx' = Log([ctx EXCEPT
                 !.completingLibrary = TRUE,
                 !.onLibraryCompleteHandlersPlan.byProperties =
                     [i \in 1..Len(ctx.extensions) |-> <<>>],
                 !.onLibraryCompleteHandlersPlan.byContainers =
                     [i \in 1..Len(ctx.extensions) |-> <<>>],
                 !.onLibraryCompleteHandlersPlan.byLibrary = <<>>,
                 !.onLibraryCompleteHandlersPlan.ctxHandlers =
                     Bucket("byLibrary", 0)],
                   Event("pass", "library", 0, 0, NoCid, "", <<>>, <<>>))
    /\ handlerPos' = 0
    /\ handlersCalled' = 0
    /\ pc' = "completeLibrary"
    /\ UNCHANGED <<factoryExtensions, withArgs, withPos, withDep, libraryDef,
                   addPos, validatorPos, validatorsLen>>
    /\ UNCHANGED pointerVars

\* completeLibrary: handlers.forEach, one handler
CompleteLibraryHandler ==
    /\ pc = "completeLibrary"
    /\ handlerPos < Len(handlers)
    /\ ctx' = CallLibraryHandler(ctx, handlers[handlerPos + 1])
    /\ pc' = After(ctx', "completeLibrary")
    /\ handlerPos' = handlerPos + 1
    /\ handlersCalled' = handlersCalled + 1
    /\ UNCHANGED <<factoryExtensions, withArgs, withPos, withDep, libraryDef,
                   addPos, handlers, validatorPos, validatorsLen>>
    /\ UNCHANGED pointerVars

\* a completeLibrary that returns after any pass
ReturnAfterAnyPass ==
    /\ pc = "completeLibrary"
    /\ handlerPos = Len(handlers)
    /\ ctx' = Log([ctx EXCEPT !.completingLibrary = FALSE],
                  Event("fixpoint", "", 0, 0, NoCid, "", <<>>, <<>>))
    /\ validatorPos' = 0
    /\ validatorsLen' = Len(ctx.validators)
    /\ pc' = "validateLibrary"
    /\ UNCHANGED <<factoryExtensions, withArgs, withPos, withDep, libraryDef,
                   addPos, handlers, handlerPos, handlersCalled>>
    /\ UNCHANGED pointerVars

\* completeLibrary returns after a pass that called no handler
CompleteLibraryReturn ==
    /\ pc = "completeLibrary"
    /\ handlerPos = Len(handlers)
    /\ handlersCalled = 0
    /\ ctx' = Log([ctx EXCEPT !.completingLibrary = FALSE],
                  Event("fixpoint", "", 0, 0, NoCid, "", <<>>, <<>>))
    /\ validatorPos' = 0
    /\ validatorsLen' = Len(ctx.validators)
    /\ pc' = "validateLibrary"
    /\ UNCHANGED <<factoryExtensions, withArgs, withPos, withDep, libraryDef,
                   addPos, handlers, handlerPos, handlersCalled>>
    /\ UNCHANGED pointerVars

\* validateLibrary: this._validators.forEach, one validator
ValidateLibrary ==
    /\ pc = "validateLibrary"
    /\ validatorPos < validatorsLen
    /\ ctx' = CallValidator(ctx, ctx.validators[validatorPos + 1])
    /\ pc' = After(ctx', "validateLibrary")
    /\ validatorPos' = validatorPos + 1
    /\ UNCHANGED <<factoryExtensions, withArgs, withPos, withDep, libraryDef,
                   addPos, handlers, handlerPos, handlersCalled, validatorsLen>>
    /\ UNCHANGED pointerVars

\* validateLibrary: this._validators.length = 0; buildLibrary returns
BuildLibraryReturn ==
    /\ pc = "validateLibrary"
    /\ validatorPos = validatorsLen
    /\ ctx' = [ctx EXCEPT !.validators = <<>>]
    /\ pc' = "returned"
    /\ UNCHANGED <<factoryExtensions, withArgs, withPos, withDep, libraryDef,
                   addPos, handlers, handlerPos, handlersCalled, validatorPos,
                   validatorsLen>>
    /\ UNCHANGED pointerVars

-----------------------------------------------------------------------------
(* Inputs: the extensions given to with() and the library definition *)

\* the most arguments given to with()
MaxArgs == 2

Catalogue ==
    {"Plain", "Wrap", "Reg", "Again", "Adder", "DupAdder", "EarlyAdder",
     "LateAdder", "Hidden", "HiddenScalar", "HiddenOutside",
     "EarlyContainer", "ThrowContainerHook",
     "ThrowPropertyHook", "ThrowContainerHandler", "ThrowLibraryHandler",
     "ThrowValidator", "Revalidate", "NeedsWrap", "NeedsBoth"}

ArgLists == UNION {[1..k -> Catalogue] : k \in 0..MaxArgs}

\* the id-related properties of a record type definition
IdShapes ==
    {<<>>,
     <<Entry("id", IdDef)>>,
     <<Entry("id", [IdDef EXCEPT !.valueType = <<"string">>])>>,
     <<Entry("id", [IdDef EXCEPT !.valueType = <<"boolean">>])>>,
     <<Entry("id", [IdDef EXCEPT !.valueType = <<"number", "[]">>])>>,
     <<Entry("id", [IdDef EXCEPT !.optional = "true"])>>,
     <<Entry("id", [IdDef EXCEPT !.modifiable = "true"])>>,
     <<Entry("id", IdDef), Entry("id2", IdDef)>>,
     <<Entry("", IdDef)>>,
     <<Entry("", IdDef), Entry("id", IdDef)>>,
     <<Entry("id", IdDef), Entry("v", [NoDef EXCEPT !.viewOf = "id"])>>,
     <<Entry("v", [NoDef EXCEPT !.viewOf = "id", !.role = "none"]),
       Entry("id", IdDef)>>}

\* the other properties of a record type definition
OtherShapes ==
    {<<>>,
     <<Entry("r", RefDef("A"))>>,
     <<Entry("r", RefDef("B"))>>,
     <<Entry("r", RefDef("C"))>>,
     <<Entry("r", RefDef("Z"))>>,
     <<Entry("r", [NoDef EXCEPT !.valueType = <<"ref", "(", "A", "|", "B", ")">>])>>,
     <<Entry("r", [NoDef EXCEPT !.valueType = <<"ref", "(", "B", "|", "Z", ")", "[]">>])>>,
     <<Entry("o", ObjectDef(<<Entry("x", StringDef), Entry("r", RefDef("B"))>>))>>,
     <<Entry("o", [NoDef EXCEPT !.valueType = <<"object">>])>>,
     <<Entry("p", [NoDef EXCEPT
                     !.valueType = <<"object">>,
                     !.typePropertyName = "t",
                     !.properties = Some(<<Entry("x", StringDef)>>),
                     !.subtypes = Some(<<Entry("S",
                         RecordTypeDef(<<Entry("y", StringDef)>>))>>)])>>,
     <<Entry("tags", [NoDef EXCEPT !.valueType = <<"string", "[]">>])>>,
     <<Entry("l", [ObjectDef(<<Entry("k", IdDef), Entry("x", StringDef)>>)
                     EXCEPT !.valueType = <<"object", "[]">>])>>,
     <<Entry("l", [ObjectDef(<<Entry("x", StringDef)>>)
                     EXCEPT !.valueType = <<"object", "[]">>])>>,
     <<Entry("o", ObjectDef(<<Entry("k", IdDef)>>))>>,
     <<Entry("w", [NoDef EXCEPT !.viewOf = "nope"])>>,
     <<Entry("w", [NoDef EXCEPT !.viewOf = "constructor"])>>,
     <<Entry("a", StringDef), Entry("u", [NoDef EXCEPT !.viewOf = "a"]),
       Entry("w", [NoDef EXCEPT !.viewOf = "u"])>>,
     <<Entry("a", StringDef),
       Entry("u", [NoDef EXCEPT !.viewOf = "a", !.properties = Some(<<>>)])>>,
     <<Entry("a", StringDef),
       Entry("u", [NoDef EXCEPT !.viewOf = "a", !.subtypes = Some(<<>>)])>>,
     <<Entry("u", [NoDef EXCEPT !.viewOf = "a", !.optional = "true"]),
       Entry("a", [StringDef EXCEPT !.modifiable = "true"])>>,
     <<Entry("a", [StringDef EXCEPT !.optional = "true"]),
       Entry("u", [NoDef EXCEPT !.viewOf = "a"])>>,
     <<Entry("a", [NoDef EXCEPT !.valueType = <<"string", "[]">>]),
       Entry("u", [NoDef EXCEPT !.viewOf = "a", !.valueType = <<"string">>])>>,
     <<Entry("bad", [NoDef EXCEPT !.valueType = <<"text">>])>>}

\* definitions of the second record type
SecondShapes ==
    {<<Entry("id", IdDef)>>,
     <<Entry("id", IdDef), Entry("r", RefDef("A"))>>,
     <<Entry("r", RefDef("A"))>>}

\* the collection suffixes of a value type
Suffixes == {<<>>, <<"[]">>, <<"{}">>}

\* value types of the grammar: every scalar type with every suffix
ValidValueTypes ==
    {<<t>> \o suf : t \in SimpleTypes, suf \in Suffixes}
    \cup {RefValueType("B") \o suf : suf \in Suffixes}

\* value types outside the grammar
InvalidValueTypes ==
    {<<>>, <<"String">>, <<"string", "[]", "[]">>, <<"string", "{}", "[]">>,
     <<" ", "string">>, <<"string", " ">>, <<"[]">>, <<"[", "string", "]">>,
     <<"object", "?">>, <<"ref">>, <<"ref", "(", ")">>,
     <<"ref", "(", "A", " ", "B", ")">>, <<"ref", "(", "B", ")", "[]", "{}">>,
     <<"ref", "(", "B">>, <<"Ref", "(", "B", ")">>}

\* a record type with a property f of each value type, and its target B
ValueTypeDefs ==
    {<<Entry("A", RecordTypeDef(<<Entry("id", IdDef),
           Entry("f", [NoDef EXCEPT
                         !.valueType = vt,
                         !.properties =
                             IF Len(vt) > 0 /\ vt[1] = "object"
                             THEN Some(<<Entry("x", StringDef)>>)
                             ELSE None])>>)),
       Entry("B", RecordTypeDef(<<Entry("id", IdDef)>>))>> :
         vt \in ValidValueTypes \cup InvalidValueTypes}

\* a polymorphic record type with the given type property name and subtypes
PolymorphicDef(typePropertyName, subtypes) ==
    [RecordTypeDef(<<Entry("id", IdDef), Entry("x", StringDef)>>) EXCEPT
        !.typePropertyName = typePropertyName,
        !.subtypes = Some(subtypes)]

\* the subtypes of the polymorphic record types
SubtypeShapes ==
    {<<>>,
     <<Entry("S1", RecordTypeDef(<<Entry("y", StringDef)>>)),
       Entry("S2", RecordTypeDef(<<Entry("z", StringDef)>>))>>,
     <<Entry("S2", RecordTypeDef(<<>>)),
       Entry("S1", [RecordTypeDef(<<Entry("y", StringDef)>>) EXCEPT
                       !.optional = "false",
                       !.valueType = <<"string", "[]">>])>>,
     <<Entry("x", RecordTypeDef(<<Entry("y", StringDef)>>))>>,
     <<Entry("S1", NoDef)>>,
     <<Entry("toString", RecordTypeDef(<<Entry("y", StringDef)>>))>>}

PolymorphicDefs ==
    {<<Entry("A", PolymorphicDef(t, sub))>> :
         t \in {UNDEF, "t", "x", "S1", "constructor"}, sub \in SubtypeShapes}

LibraryDefs ==
    {<<>>}
    \cup PolymorphicDefs
    \cup ValueTypeDefs
    \cup {<<Entry("A", RecordTypeDef(i \o o))>> : i \in IdShapes, o \in OtherShapes}
    \cup {<<Entry("A", RecordTypeDef(i \o o)), Entry("B", RecordTypeDef(b))>> :
              i \in IdShapes, o \in OtherShapes, b \in SecondShapes}

\* the definition of the record type the pointers are parsed for
PointerDef ==
    <<Entry("R", RecordTypeDef(<<
          Entry("id", IdDef),
          Entry("address", [ObjectDef(<<
              Entry("street", [StringDef EXCEPT !.optional = "true"]),
              Entry("lines", [NoDef EXCEPT !.valueType = <<"string", "[]">>])>>)
              EXCEPT !.optional = "true"]),
          Entry("tags", [NoDef EXCEPT !.valueType = <<"string", "[]">>]),
          Entry("items", [ObjectDef(<<Entry("k", IdDef),
                                      Entry("name", StringDef)>>)
                            EXCEPT !.valueType = <<"object", "[]">>]),
          Entry("m", [NoDef EXCEPT !.valueType = <<"string", "{}">>]),
          Entry("mo", [ObjectDef(<<Entry("x", StringDef)>>)
                         EXCEPT !.valueType = <<"object", "{}">>])>>))>>

\* the definition used to exercise the extension interface
PipelineDef ==
    <<Entry("A", RecordTypeDef(<<Entry("id", IdDef),
          Entry("o", ObjectDef(<<Entry("x", StringDef)>>))>>))>>

Inputs ==
    {<<a, d>> : a \in {<<>>, <<"Adder">>}, d \in LibraryDefs}
    \cup {<<a, d>> : a \in ArgLists, d \in {<<>>, PipelineDef}}
    \cup {<<<<>>, PointerDef>>}

-----------------------------------------------------------------------------
(* Property pointers *)

\* JavaScript values of a record: undefined, null, a string, an object (v maps
\* its keys to values) and an array (v.e its elements, v.p its other keys)
Undefined == [k |-> "undefined", v |-> ""]

Null == [k |-> "null", v |-> ""]

String(x) == [k |-> "string", v |-> x]

Object(f) == [k |-> "object", v |-> f]

Array(e) == [k |-> "array", v |-> [e |-> e, p |-> <<>>]]

\* val === undefined || val === null
Nullish(val) == val.k \in {"undefined", "null"}

\* a pointer token as a property key: index is Number(token) for the index
\* of an array element, -1 for any other token
Key(name, index) == [name |-> name, index |-> index]

\* the tokens matched by /^(?:0|[1-9][0-9]*)$/ and their numbers
Indices == ("0" :> 0) @@ ("1" :> 1) @@ ("2" :> 2) @@ ("3" :> 3)

\* obj[key]
GetProperty(obj, key) ==
    IF obj.k = "object"
    THEN IF key.name \in DOMAIN obj.v THEN obj.v[key.name] ELSE Undefined
    ELSE IF obj.k = "array"
    THEN IF key.index >= 0
         THEN IF key.index < Len(obj.v.e) THEN obj.v.e[key.index + 1]
              ELSE Undefined
         ELSE IF key.name \in DOMAIN obj.v.p THEN obj.v.p[key.name]
              ELSE Undefined
    ELSE Undefined

\* obj[key] = val; an index past the end of an array leaves holes
SetProperty(obj, key, val) ==
    IF obj.k = "object"
    THEN [obj EXCEPT !.v = (key.name :> val) @@ @]
    ELSE IF obj.k = "array"
    THEN IF key.index >= 0
         THEN IF key.index < Len(obj.v.e)
              THEN [obj EXCEPT !.v.e[key.index + 1] = val]
              ELSE [obj EXCEPT !.v.e =
                       @ \o [j \in 1..(key.index - Len(@)) |-> Undefined]
                         \o <<val>>]
         ELSE [obj EXCEPT !.v.p = (key.name :> val) @@ @]
    ELSE obj

\* an insertion at the front of the array
PushFront(obj, value) == [obj EXCEPT !.v.e = <<value>> \o @]

\* an assignment to the element at index
SpliceOver(obj, index, value) == [obj EXCEPT !.v.e[index + 1] = value]

\* obj.push(value)
Push(obj, value) == [obj EXCEPT !.v.e = Append(@, value)]

\* obj.splice(index, 0, value)
Splice(obj, index, value) ==
    [obj EXCEPT !.v.e = SubSeq(@, 1, index) \o <<value>>
                          \o SubSeq(@, index + 1, Len(@))]

\* key >= obj.length: obj.length is undefined unless obj is an array, and a
\* comparison with undefined is false
NotBelowLength(key, obj) ==
    obj.k = "array" /\ key.index >= 0 /\ key.index >= Len(obj.v.e)

\* key < obj.length
BelowLength(key, obj) ==
    obj.k = "array" /\ key.index >= 0 /\ key.index < Len(obj.v.e)

NoError == [type |-> "", msg |-> "", at |-> <<>>]

X2UsageError(msg) == [type |-> "X2UsageError", msg |-> msg, at |-> <<>>]

X2DataError(msg) == [type |-> "X2DataError", msg |-> msg, at |-> <<>>]

\* new PropertyPointer(parent, pointerToken, propDesc, propPath,
\* collectionElement, childrenContainer); the parent is the previous pointer
\* of the chain, the children container is kept by parse
PropertyPointer(pointerToken, propDesc, propPath, collectionElement) ==
    [pointerToken |-> pointerToken,
     propDesc |-> [name |-> propDesc.name,
                   isArray |-> propDesc.isArray,
                   isMap |-> propDesc.isMap,
                   scalarValueType |-> propDesc.scalarValueType],
     propPath |-> propPath,
     collectionElement |-> collectionElement]

\* propDesc.nestedProperties as the children container of a pointer
ChildrenContainer(propDesc) ==
    IF propDesc.nestedProperties.k = "own"
    THEN Some(propDesc.nestedProperties.c)
    ELSE IF propDesc.nestedProperties.k = "recordType"
    THEN Some(ctx.recordTypes.recordTypeDescs[propDesc.nestedProperties.name])
    ELSE None

\* a parse in progress: the pointers from the root's child to the last one
\* and the children container of the last one
Parsed(err, chain, container) ==
    [err |-> err, chain |-> chain, container |-> container]

\* PropertyPointer._createChildPointer on the last pointer of parse state ps
createChildPointer(ps, pointerToken, noDash) ==
    LET root == ps.chain = <<>>
        this == Last(ps.chain)
        dash == pointerToken = "-"
    IN  IF ~root /\ this.collectionElement /\ this.propDesc.isArray
            /\ this.pointerToken.name = "-"
        THEN Parsed(X2UsageError("unexpected dash for an array index."),
                    ps.chain, ps.container)
        ELSE IF ~root /\ ~this.collectionElement /\ this.propDesc.isArray
        THEN IF dash /\ noDash
             THEN Parsed(X2UsageError("dash not allowed for an array index in this pointer."),
                         ps.chain, ps.container)
             ELSE IF ~dash /\ pointerToken \notin DOMAIN Indices
             THEN Parsed(X2UsageError("invalid array index."),
                         ps.chain, ps.container)
             ELSE Parsed(NoError,
                         Append(ps.chain, PropertyPointer(
                             Key(pointerToken,
                                 IF dash THEN -1 ELSE Indices[pointerToken]),
                             this.propDesc, this.propPath, TRUE)),
                         ps.container)
        ELSE IF ~root /\ ~this.collectionElement /\ this.propDesc.isMap
        THEN Parsed(NoError,
                    Append(ps.chain, PropertyPointer(
                        Key(pointerToken, -1), this.propDesc, this.propPath,
                        TRUE)),
                    ps.container)
        ELSE IF ~root /\ this.propDesc.scalarValueType /= "object"
        THEN Parsed(X2UsageError("does not have nested elements."),
                    ps.chain, ps.container)
        ELSE IF ps.container = None
        THEN Parsed([type |-> "TypeError", msg |-> "Cannot read properties of undefined.", at |-> <<>>],
                    ps.chain, ps.container)
        ELSE IF ~hasProperty(ps.container[1], pointerToken)
        THEN Parsed(X2UsageError("no such property."), ps.chain, ps.container)
        ELSE LET childPropDesc == ps.container[1].propertyDescs[pointerToken]
             IN  Parsed(NoError,
                        Append(ps.chain, PropertyPointer(
                            Key(pointerToken, -1), childPropDesc,
                            Append(ps.container[1].nestedPath, pointerToken),
                            FALSE)),
                        ChildrenContainer(childPropDesc))

\* the replacement of ~0 and ~1 in a pointer token
Unescape(token) ==
    IF token = "~0" THEN "~" ELSE IF token = "~1" THEN "/" ELSE token

\* parse: the loop over the tokens of the pointer
RECURSIVE parseFrom(_, _, _, _)
parseFrom(ps, propPointerTokens, i, noDash) ==
    IF ps.err /= NoError \/ i > Len(propPointerTokens) THEN ps
    ELSE parseFrom(
             createChildPointer(ps, Unescape(propPointerTokens[i]), noDash),
             propPointerTokens, i + 1, noDash)

\* parse(recordTypeDesc, propPointer, noDash), propPointer given as the
\* tokens that follow the slashes
parse(recordTypeDesc, propPointerTokens, noDash) ==
    parseFrom(Parsed(NoError, <<>>, Some(recordTypeDesc)),
              propPointerTokens, 1, noDash)

\* the result of a step of a pointer method: the error thrown, the value
\* returned, and the parent object as the step leaves it
Step(err, val, obj) == [err |-> err, val |-> val, obj |-> obj]

\* the error of a pointer that was used wrongly
noValueAsUsageError(this) ==
    [type |-> "X2UsageError", msg |-> "No property value at.", at |-> <<>>]

\* const noValue = () => new X2DataError('No property value at ' + propPath)
noValue(this) ==
    [type |-> "X2DataError", msg |-> "No property value at.", at |-> this.propPath]

\* PropertyPointer._getImmediateValue(obj, i, forSet) of a non-root pointer
getImmediateValue(this, obj, i, forSet) ==
    IF this.propDesc.isArray /\ ~this.collectionElement
    THEN IF this.pointerToken.name /= "-"
         THEN IF NotBelowLength(this.pointerToken, obj)
              THEN Step(noValue(this), Undefined, obj)
              ELSE IF Nullish(GetProperty(obj, this.pointerToken)) /\ i > 0
              THEN Step(noValue(this), Undefined, obj)
              ELSE Step(NoError, GetProperty(obj, this.pointerToken), obj)
         ELSE Step(NoError, Undefined, obj)
    ELSE IF this.propDesc.isMap /\ ~this.collectionElement
    THEN IF Nullish(GetProperty(obj, this.pointerToken)) /\ i > 0
         THEN Step(noValue(this), Undefined, obj)
         ELSE Step(NoError, GetProperty(obj, this.pointerToken), obj)
    ELSE IF ~Nullish(GetProperty(obj, this.pointerToken))
    THEN Step(NoError, GetProperty(obj, this.pointerToken), obj)
    ELSE IF i = 0 THEN Step(NoError, Null, obj)
    ELSE IF i > 1 THEN Step(noValue(this), Undefined, obj)
    ELSE IF this.propDesc.isArray
    THEN Step(NoError, Array(<<>>),
              IF forSet THEN SetProperty(obj, this.pointerToken, Array(<<>>))
              ELSE obj)
    ELSE IF this.propDesc.isMap
    THEN Step(NoError, Object(<<>>),
              IF forSet THEN SetProperty(obj, this.pointerToken, Object(<<>>))
              ELSE obj)
    ELSE Step(noValue(this), Undefined, obj)

\* getValue: the reduceRight over the pointer chain, from pointer k on, with
\* the forSet argument its callback passes to _getImmediateValue; obj is
\* returned as the steps leave it
RECURSIVE getValueFrom(_, _, _, _)
getValueFrom(chain, k, obj, forSet) ==
    IF k > Len(chain) THEN Step(NoError, obj, obj)
    ELSE LET p == chain[k]
             Below(c) ==
                 LET Put(below) ==
                         Step(below.err, below.val,
                              IF Nullish(GetProperty(c.obj, p.pointerToken))
                              THEN c.obj
                              ELSE SetProperty(c.obj, p.pointerToken, below.obj))
                 IN  Put(getValueFrom(chain, k + 1, c.val, forSet))
             Continue(c) ==
                 IF c.err /= NoError \/ k = Len(chain) THEN c
                 ELSE Below(c)
         IN  Continue(getImmediateValue(p, obj, Len(chain) - k, forSet))

\* a navigation that stores the containers it materialises
getValueStoring(chain, rec) == getValueFrom(chain, 1, rec, TRUE)

\* PropertyPointer.getValue(record)
getValue(chain, rec) == getValueFrom(chain, 1, rec, FALSE)

\* a write that stores the value past the end of the array before it throws
SetLastThenThrow(p, obj, value, insert) ==
    IF p.collectionElement /\ p.propDesc.isArray
           /\ p.pointerToken.name /= "-"
           /\ ~BelowLength(p.pointerToken, obj)
    THEN Step(X2DataError("Array index is out of bounds."), Undefined,
              SetProperty(obj, p.pointerToken, value))
    ELSE Step(NoError, Undefined, SetProperty(obj, p.pointerToken, value))

\* _setValue: what the callback does for the last pointer of the chain
SetLast(p, obj, value, insert) ==
    IF p.collectionElement /\ p.propDesc.isArray
    THEN IF p.pointerToken.name = "-"
         THEN IF ~insert
              THEN Step(X2UsageError("May not replace dash index."), Undefined, obj)
              ELSE Step(NoError, Undefined, Push(obj, value))
         ELSE IF BelowLength(p.pointerToken, obj)
         THEN IF insert
              THEN Step(NoError, Undefined,
                        Splice(obj, p.pointerToken.index, value))
              ELSE Step(NoError, Undefined,
                        SetProperty(obj, p.pointerToken, value))
         ELSE Step(X2DataError("Array index is out of bounds."), Undefined, obj)
    ELSE Step(NoError, Undefined, SetProperty(obj, p.pointerToken, value))

\* _setValue: the reduceRight over the pointer chain, from pointer k on; the
\* objects are changed in place, so obj is returned as the steps leave it
RECURSIVE setValueFrom(_, _, _, _, _)
setValueFrom(chain, k, obj, value, insert) ==
    LET p == chain[k]
        Below(c) ==
            LET Put(below) ==
                    Step(below.err, Undefined,
                         SetProperty(c.obj, p.pointerToken, below.obj))
            IN  Put(setValueFrom(chain, k + 1, c.val, value, insert))
        Continue(c) ==
            IF c.err /= NoError THEN c
            ELSE IF k = Len(chain) THEN SetLast(p, c.obj, value, insert)
            ELSE Below(c)
    IN  Continue(getImmediateValue(p, obj, Len(chain) - k, TRUE))

\* a write that does not look at the value it is given
setValueUnchecked(chain, rec, value, insert) ==
    IF chain = <<>>
    THEN Step(X2UsageError("May not replace the whole record."), Undefined, rec)
    ELSE setValueFrom(chain, 1, rec, value, insert)

\* PropertyPointer._setValue(record, value, insert)
setValue(chain, rec, value, insert) ==
    IF chain = <<>>
    THEN Step(X2UsageError("May not replace the whole record."), Undefined, rec)
    ELSE IF value = Undefined
    THEN Step(X2UsageError("May not use undefined as a value."), Undefined, rec)
    ELSE IF value = Null /\ Last(chain).collectionElement
            /\ Last(chain).propDesc.scalarValueType = "object"
    THEN Step(X2UsageError("May not use null as a value."), Undefined, rec)
    ELSE setValueFrom(chain, 1, rec, value, insert)

\* delete obj[index]: the element becomes a hole
LeaveHole(obj, index) == [obj EXCEPT !.v.e[index + 1] = Undefined]

\* obj.splice(index, 1)
SpliceOut(obj, index) ==
    [obj EXCEPT !.v.e = SubSeq(@, 1, index) \o SubSeq(@, index + 2, Len(@))]

\* delete obj[key], for a key that is not an array index
DeleteProperty(obj, key) ==
    IF obj.k = "object"
    THEN [obj EXCEPT !.v = [x \in (DOMAIN @) \ {key.name} |-> @[x]]]
    ELSE IF obj.k = "array"
    THEN [obj EXCEPT !.v.p = [x \in (DOMAIN @) \ {key.name} |-> @[x]]]
    ELSE obj

\* a deletion that takes the dash for an element that is not there
DeleteLastAllowingDash(p, obj) ==
    IF p.collectionElement /\ p.propDesc.isArray
           /\ BelowLength(p.pointerToken, obj)
    THEN Step(NoError, Undefined, SpliceOut(obj, p.pointerToken.index))
    ELSE Step(NoError, Undefined, obj)

\* deleteValue: what the callback does for the last pointer of the chain
DeleteLast(p, obj) ==
    IF p.collectionElement /\ p.propDesc.isArray
    THEN IF p.pointerToken.name = "-"
         THEN Step(X2UsageError("May not delete dash index."), Undefined, obj)
         ELSE IF BelowLength(p.pointerToken, obj)
         THEN Step(NoError, Undefined, SpliceOut(obj, p.pointerToken.index))
         ELSE Step(X2DataError("Array index is out of bounds."), Undefined, obj)
    ELSE Step(NoError, Undefined, DeleteProperty(obj, p.pointerToken))

\* deleteValue: the reduceRight over the pointer chain, from pointer k on; a
\* container materialised by _getImmediateValue is not part of obj
RECURSIVE deleteValueFrom(_, _, _)
deleteValueFrom(chain, k, obj) ==
    LET p == chain[k]
        Below(c) ==
            LET Put(below) ==
                    Step(below.err, Undefined,
                         IF Nullish(GetProperty(c.obj, p.pointerToken))
                         THEN c.obj
                         ELSE SetProperty(c.obj, p.pointerToken, below.obj))
            IN  Put(deleteValueFrom(chain, k + 1, c.val))
        Continue(c) ==
            IF c.err /= NoError THEN c
            ELSE IF k = Len(chain) THEN DeleteLast(p, c.obj)
            ELSE Below(c)
    IN  Continue(getImmediateValue(p, obj, Len(chain) - k, FALSE))

\* a deletion that takes the root pointer for a pointer to nothing
deleteValueAtRoot(chain, rec) ==
    IF chain = <<>> THEN Step(NoError, Undefined, rec)
    ELSE deleteValueFrom(chain, 1, rec)

\* PropertyPointer.deleteValue(record)
deleteValue(chain, rec) ==
    IF chain = <<>>
    THEN Step(X2UsageError("May not delete the whole record."), Undefined, rec)
    ELSE deleteValueFrom(chain, 1, rec)

\* a call of a pointer method with its arguments
Invocation(method, pointer, noDash, rec, value) ==
    [method |-> method, pointer |-> pointer, noDash |-> noDash,
     record |-> rec, value |-> value]

\* what a call returned (val) or threw (err)
Outcome(step) == [err |-> step.err, val |-> step.val]

\* the record type of the records the pointers are parsed for
PointerType == "R"

\* the variables of the library construction
libraryVars == <<factoryExtensions, withArgs, withPos, withDep, libraryDef, ctx,
                 pc, addPos, handlers, handlerPos, handlersCalled,
                 validatorPos, validatorsLen>>

\* a record of type R with the given properties besides its id
Rec(f) == Object(f @@ ("id" :> String("1")))

\* the records given to the pointer methods
Records ==
    {Rec(<<>>),
     Rec("address" :> Null),
     Rec("address" :> Object(<<>>)),
     Rec("address" :> Object("street" :> String("s"))),
     Rec("address" :> Object("lines" :> Array(<<String("l")>>))),
     Rec("tags" :> Null),
     Rec("tags" :> Array(<<>>)),
     Rec("tags" :> Array(<<String("a")>>)),
     Rec("tags" :> Array(<<String("a"), String("b")>>)),
     Rec("items" :> Array(<<>>)),
     Rec("items" :> Array(<<Object(("k" :> String("7")) @@ ("name" :> String("n")))>>)),
     Rec("m" :> Object(<<>>)),
     Rec("m" :> Object("x" :> String("mx"))),
     Rec("mo" :> Object(<<>>)),
     Rec("mo" :> Object("a" :> Object("x" :> String("ax"))))}

\* the pointers given to parse, as the tokens that follow the slashes
Pointers ==
    {<<>>, <<"id">>, <<"nope">>, <<"id", "x">>,
     <<"address">>, <<"address", "street">>,
     <<"address", "lines">>, <<"address", "lines", "0">>,
     <<"address", "lines", "-">>,
     <<"tags">>, <<"tags", "0">>, <<"tags", "1">>, <<"tags", "2">>,
     <<"tags", "-">>, <<"tags", "x">>, <<"tags", "0", "x">>,
     <<"items", "0">>, <<"items", "1">>, <<"items", "-">>,
     <<"items", "0", "name">>, <<"items", "1", "name">>,
     <<"items", "-", "name">>,
     <<"m">>, <<"m", "x">>, <<"m", "y">>,
     <<"mo", "a">>, <<"mo", "a", "x">>, <<"mo", "b", "x">>}

\* the values given to addValue and replaceValue
Values == {String("v"), Object("x" :> String("v")), Null, Undefined}

\* parse followed by PropertyPointer.getValue(record); every call draws its
\* own record, so a behaviour makes one call
GetValue ==
    /\ pc = "returned"
    /\ hasRecordType(ctx, PointerType)
    /\ invocation.method = ""
    /\ \E rec \in Records, pointer \in Pointers, noDash \in BOOLEAN :
           LET ptr == parse(ctx.recordTypes.recordTypeDescs[PointerType],
                            pointer, noDash)
               Return(step) ==
                   /\ outcome' = Outcome(step)
                   /\ record' = step.obj
           IN  /\ invocation' =
                      Invocation("getValue", pointer, noDash, rec, Undefined)
               /\ IF ptr.err /= NoError
                  THEN Return(Step(ptr.err, Undefined, rec))
                  ELSE Return(getValue(ptr.chain, rec))
    /\ UNCHANGED libraryVars

\* parse followed by PropertyPointer.addValue(record, value)
AddValue ==
    /\ pc = "returned"
    /\ hasRecordType(ctx, PointerType)
    /\ invocation.method = ""
    /\ \E rec \in Records, pointer \in Pointers, noDash \in BOOLEAN,
          value \in Values :
           LET ptr == parse(ctx.recordTypes.recordTypeDescs[PointerType],
                            pointer, noDash)
               Return(step) ==
                   /\ outcome' = Outcome(step)
                   /\ record' = step.obj
           IN  /\ invocation' =
                      Invocation("addValue", pointer, noDash, rec, value)
               /\ IF ptr.err /= NoError
                  THEN Return(Step(ptr.err, Undefined, rec))
                  ELSE Return(setValue(ptr.chain, rec, value, TRUE))
    /\ UNCHANGED libraryVars

\* parse followed by PropertyPointer.replaceValue(record, value)
ReplaceValue ==
    /\ pc = "returned"
    /\ hasRecordType(ctx, PointerType)
    /\ invocation.method = ""
    /\ \E rec \in Records, pointer \in Pointers, noDash \in BOOLEAN,
          value \in Values :
           LET ptr == parse(ctx.recordTypes.recordTypeDescs[PointerType],
                            pointer, noDash)
               Return(step) ==
                   /\ outcome' = Outcome(step)
                   /\ record' = step.obj
           IN  /\ invocation' =
                      Invocation("replaceValue", pointer, noDash, rec, value)
               /\ IF ptr.err /= NoError
                  THEN Return(Step(ptr.err, Undefined, rec))
                  ELSE Return(setValue(ptr.chain, rec, value, FALSE))
    /\ UNCHANGED libraryVars

\* parse followed by PropertyPointer.deleteValue(record)
DeleteValue ==
    /\ pc = "returned"
    /\ hasRecordType(ctx, PointerType)
    /\ invocation.method = ""
    /\ \E rec \in Records, pointer \in Pointers, noDash \in BOOLEAN :
           LET ptr == parse(ctx.recordTypes.recordTypeDescs[PointerType],
                            pointer, noDash)
               Return(step) ==
                   /\ outcome' = Outcome(step)
                   /\ record' = step.obj
           IN  /\ invocation' =
                      Invocation("deleteValue", pointer, noDash, rec, Undefined)
               /\ IF ptr.err /= NoError
                  THEN Return(Step(ptr.err, Undefined, rec))
                  ELSE Return(deleteValue(ptr.chain, rec))
    /\ UNCHANGED libraryVars

-----------------------------------------------------------------------------
(* Specification *)

Init ==
    /\ \E inp \in Inputs : withArgs = inp[1] /\ libraryDef = inp[2]
    /\ factoryExtensions = <<"Core">>
    /\ withPos = 1
    /\ withDep = 0
    /\ ctx = LibraryConstructionContext(<<"Core">>)
    /\ pc = "with"
    /\ addPos = 0
    /\ handlers = <<>>
    /\ handlerPos = 0
    /\ handlersCalled = 0
    /\ validatorPos = 0
    /\ validatorsLen = 0
    /\ record = Undefined
    /\ invocation = Invocation("", <<>>, FALSE, Undefined, Undefined)
    /\ outcome = Outcome(Step(NoError, Undefined, Undefined))

Next ==
    \/ WithRequired
    \/ WithExtension
    \/ WithReturn
    \/ BuildLibrary
    \/ AddRecordTypes
    \/ CompleteLibraryPass
    \/ CompleteLibraryHandler
    \/ CompleteLibraryReturn
    \/ ValidateLibrary
    \/ BuildLibraryReturn
    \/ GetValue
    \/ AddValue
    \/ ReplaceValue
    \/ DeleteValue

Spec == Init /\ [][Next]_vars

-----------------------------------------------------------------------------
(* Properties.  The trace ctx.log records, in the order of execution, each  *)
(* registration (reg), hook return (hook), container creation (open),      *)
(* stored property (prop), handler or validator invocation (call),         *)
(* completed container (ret), ctx.addRecordType call and throw.            *)

Pos == 1..Len(ctx.log)

At(p) == ctx.log[p]

Max(S) == CHOOSE x \in S : \A y \in S : y <= x

Min(S) == CHOOSE x \in S : \A y \in S : x <= y

IsCall(p, kind) == At(p).t = "call" /\ At(p).q = kind

IsReg(p, kind) == At(p).t = "reg" /\ At(p).q = kind

IsPrefix(a, b) == Len(a) <= Len(b) /\ SubSeq(b, 1, Len(a)) = a

NoDuplicates(q) == \A i, j \in 1..Len(q) : q[i] = q[j] => i = j

RecordTypeNames == DOMAIN ctx.recordTypes.recordTypeDescs

\* the property descriptors of container c and of the containers nested in it
RECURSIVE AllDescs(_)
AllDescs(c) ==
    UNION {{c.propertyDescs[p]}
             \cup (IF c.propertyDescs[p].nestedProperties.k = "own"
                   THEN AllDescs(c.propertyDescs[p].nestedProperties.c)
                   ELSE {}) : p \in DOMAIN c.propertyDescs}

\* every property descriptor of the library
LibraryDescs ==
    UNION {AllDescs(ctx.recordTypes.recordTypeDescs[n]) : n \in RecordTypeNames}

\* a property that is a reference to one record type
IsReference(d) == d.scalarValueType = "ref"

\* the record type names written in a value type
TargetsOf(vt) ==
    IF Len(vt) > 0 /\ vt[1] = "ref"
    THEN Range(vt) \ {"ref", "(", ")", "|", "[]", "{}"}
    ELSE {}

\* the reference targets named anywhere in a definition
RECURSIVE DefTargets(_)
DefTargets(def) ==
    (IF def.properties = None THEN {}
     ELSE UNION {TargetsOf(e.d.valueType) \cup DefTargets(e.d) :
                     e \in Range(def.properties[1])})
    \cup (IF def.subtypes = None THEN {}
          ELSE UNION {DefTargets(e.d) : e \in Range(def.subtypes[1])})

\* the names of the record types of the library definition
DefinedNames == {libraryDef[k].n : k \in 1..Len(libraryDef)}

-----------------------------------------------------------------------------
(* C1 *)

IdProperties(c) == {p \in DOMAIN c.propertyDescs : c.propertyDescs[p].isId}

ValidId(d) ==
    /\ d.isScalar
    /\ ~TruthyFlag(d.optional)
    /\ ~d.modifiable
    /\ d.scalarValueType \in {"string", "number"}

\* C1: in every library buildLibrary returns, every record type, those added
\* during library completion included, has exactly one property with the id
\* role, and that property is scalar, required, non-modifiable and of value
\* type string or number; a definition that is otherwise makes buildLibrary
\* throw, so no such library is returned.
C1_ExactlyOneValidId ==
    pc = "returned" =>
        \A n \in RecordTypeNames :
            LET c == ctx.recordTypes.recordTypeDescs[n]
            IN  /\ Cardinality(IdProperties(c)) = 1
                /\ \A p \in IdProperties(c) : ValidId(c.propertyDescs[p])

-----------------------------------------------------------------------------
(* C2 *)

\* the record type whose lookup failed: the reference lookup handler called
\* just before the throw
FailedTarget ==
    LET e == At(Len(ctx.log) - 1)
    IN  TargetName(PropertyOf(ctx, e.cid, e.name).refTarget)

\* C2: a non-polymorphic reference resolves whatever the order of the
\* definitions: in a returned library the nested properties of every
\* reference property are the descriptor of its target record type, and a
\* build fails for an unknown target only if no record type of that name is
\* defined anywhere in the library definition, be it before or after the
\* referring one, the referring one itself, or one referring back.
C2_ReferencesResolveInAnyOrder ==
    /\ pc = "returned" =>
           \A d \in LibraryDescs :
               IsReference(d) =>
                   /\ d.nestedProperties = RefNested(TargetName(d.refTarget))
                   /\ hasRecordType(ctx, TargetName(d.refTarget))
    /\ (pc = "thrown" /\ ctx.err = "unknown reference target record type.") =>
           FailedTarget \notin DefinedNames

\* two record types referring to each other, both resolved
C2_MutualReferencesResolved ==
    /\ pc = "returned"
    /\ {"A", "B"} \subseteq RecordTypeNames
    /\ "r" \in DOMAIN ctx.recordTypes.recordTypeDescs["A"].propertyDescs
    /\ "r" \in DOMAIN ctx.recordTypes.recordTypeDescs["B"].propertyDescs
    /\ PropertyOf(ctx, Cid("A", <<>>), "r").nestedProperties = RefNested("B")
    /\ PropertyOf(ctx, Cid("B", <<>>), "r").nestedProperties = RefNested("A")

-----------------------------------------------------------------------------
(* C3 *)

\* C3: a library is returned only if every reference target named in the
\* library definition, each target of a polymorphic reference included, and
\* the target of every reference property descriptor of the library, is a
\* record type of the library; otherwise buildLibrary throws.
C3_EveryReferenceTargetExists ==
    pc = "returned" =>
        /\ \A k \in 1..Len(libraryDef) :
               DefTargets(libraryDef[k].d) \subseteq RecordTypeNames
        /\ \A d \in LibraryDescs :
               IsReference(d) => hasRecordType(ctx, TargetName(d.refTarget))

\* a polymorphic reference with one existing and one missing target throws
C3_MissingPolymorphicTargetThrows ==
    /\ pc = "thrown"
    /\ ctx.err = "unknown reference target record type."
    /\ "B" \in DefinedNames
    /\ \E k \in 1..Len(libraryDef) :
           \E e \in Range(libraryDef[k].d.properties[1]) :
               /\ "|" \in Range(e.d.valueType)
               /\ "B" \in TargetsOf(e.d.valueType)
               /\ TargetsOf(e.d.valueType) \ DefinedNames /= {}

-----------------------------------------------------------------------------
(* C4 *)

\* where completeLibrary returned
FixpointAt == {p \in Pos : At(p).t = "fixpoint"}

Ids(events) == [k \in 1..Len(events) |-> events[k].id]

\* the validators invoked so far, in the order of invocation
CalledValidators ==
    Ids(SelectSeq(ctx.log, LAMBDA e : e.t = "call" /\ e.q = "validator"))

\* the validators registered in the first n entries of the trace
RegisteredValidators(n) ==
    Ids(SelectSeq(SubSeq(ctx.log, 1, n),
                  LAMBDA e : e.t = "reg" /\ e.q = "validator"))

\* C4: no validator is invoked before completeLibrary has reached its
\* fixpoint, that is before every registered library completion handler has
\* been called; after it, the validators registered before validation started
\* are invoked once each in registration order, and a validator registered
\* by a validator during validation is not invoked.
C4_ValidatorsAfterFixpoint ==
    /\ \A p \in Pos : IsCall(p, "validator") => \E f \in FixpointAt : f < p
    /\ \A f \in FixpointAt :
           /\ \A g \in 1..f :
                  IsReg(g, "library") =>
                      \E q \in 1..f : IsCall(q, "library") /\ At(q).id = At(g).id
           /\ \A q \in Pos : IsCall(q, "library") => q < f
           /\ IsPrefix(CalledValidators, RegisteredValidators(f))
           /\ pc = "returned" => CalledValidators = RegisteredValidators(f)
    /\ pc = "returned" => FixpointAt /= {}

\* validators of the core extension and of another extension have run
C4_ValidatorsOfTwoExtensionsCalled ==
    /\ pc = "returned"
    /\ \E p, q \in Pos : /\ p < q
                         /\ IsCall(p, "validator") /\ At(p).ext = 1
                         /\ IsCall(q, "validator") /\ At(q).ext > 1

\* C4 as stated: every validator that was registered is invoked once, in
\* registration order
C4_EveryRegisteredValidatorInvoked ==
    pc = "returned" => CalledValidators = RegisteredValidators(Len(ctx.log))

-----------------------------------------------------------------------------
(* C5 *)

ContainerCalls(c) == {p \in Pos : IsCall(p, "container") /\ At(p).cid = c}

\* where the handler with registration number id was registered
RegPos(id) == CHOOSE p \in Pos : At(p).t = "reg" /\ At(p).id = id

\* where the first completion handler of container c was called
ClosingStart(c) == Min(ContainerCalls(c))

\* the handler called at p was registered before its container's completion
QueuedWhileOpen(p) == RegPos(At(p).id) < ClosingStart(At(p).cid)

FromProperty(e) == e.name = "extendPropertyDescriptor"

\* the order of a pass of completeContainer
CalledBefore(e1, e2) ==
    IF FromProperty(e1)
    THEN FromProperty(e2) =>
             \/ e1.ext < e2.ext
             \/ e1.ext = e2.ext /\ e1.id < e2.id
    ELSE ~FromProperty(e2) /\ e1.id < e2.id

\* C5: of the completion handlers registered for a container before its
\* completion started, those registered from extendPropertyDescriptor are
\* called first, by extension and then in registration order, and those
\* registered from extendPropertiesContainer after them, in registration
\* order; a handler registered during the completion is called after these.
C5_ContainerHandlerOrder ==
    \A p, q \in Pos :
        (/\ p < q
         /\ IsCall(p, "container") /\ IsCall(q, "container")
         /\ At(p).cid = At(q).cid) =>
            /\ QueuedWhileOpen(q) => QueuedWhileOpen(p)
            /\ (QueuedWhileOpen(p) /\ QueuedWhileOpen(q)) =>
                   CalledBefore(At(p), At(q))
            /\ QueuedWhileOpen(p) =>
                   At(p).name \in {"extendPropertyDescriptor",
                                   "extendPropertiesContainer"}

\* handlers registered for one container from both hooks have been called
C5_HandlersOfBothHooksCalled ==
    \E p, q \in Pos :
        /\ p < q
        /\ IsCall(p, "container") /\ IsCall(q, "container")
        /\ At(p).cid = At(q).cid
        /\ QueuedWhileOpen(p) /\ QueuedWhileOpen(q)
        /\ FromProperty(At(p)) /\ ~FromProperty(At(q))
        /\ At(p).ext > 1 /\ At(q).ext > 1

\* C5 as stated: the completion handlers of a container are called in the
\* order in which they were registered
C5_RegistrationOrder ==
    \A p, q \in Pos :
        (/\ p < q
         /\ IsCall(p, "container") /\ IsCall(q, "container")
         /\ At(p).cid = At(q).cid) => At(p).id < At(q).id

-----------------------------------------------------------------------------
(* C6 *)

\* the properties the definition of an opened container asks for
ExpectedNames(e) ==
    Range(e.arg) \cup Range(e.res)
        \cup (IF e.name = UNDEF \/ Len(e.res) = 0 THEN {} ELSE {e.name})

\* a declared, view or derived property of container c was stored at p
IsProp(p, c) ==
    /\ At(p).t = "prop"
    /\ At(p).cid = c
    /\ At(p).q \in {"declared", "view", "subtype", "type"}

\* container c2 encloses container c1
Encloses(c2, c1) ==
    /\ c2.rt = c1.rt
    /\ Len(c2.path) < Len(c1.path)
    /\ SubSeq(c1.path, 1, Len(c2.path)) = c2.path

OpenPos(c) == {p \in Pos : At(p).t = "open" /\ At(p).cid = c}

\* C6: a container completion handler is called after every declared, view
\* and derived property of its container has been added and before the
\* container is returned to its parent, every registered handler is called
\* before that return, and the handlers of a nested container created while
\* the properties of its enclosing container are added are called before
\* every handler of the enclosing container.
C6_HandlersAfterPropertiesBeforeReturn ==
    /\ \A p \in Pos :
           IsCall(p, "container") =>
               LET c == At(p).cid
               IN  /\ \E o \in OpenPos(c) :
                          /\ o < p
                          /\ \A n \in ExpectedNames(At(o)) :
                                 \E a \in o..p : IsProp(a, c) /\ At(a).name = n
                   /\ \A a \in Pos : IsProp(a, c) => a < p
                   /\ \A r \in Pos :
                          (At(r).t = "ret" /\ At(r).cid = c) => p < r
    /\ \A r \in Pos :
           At(r).t = "ret" =>
               \A g \in 1..r :
                   (IsReg(g, "container") /\ At(g).cid = At(r).cid) =>
                       \E p \in g..r :
                           IsCall(p, "container") /\ At(p).id = At(g).id
    /\ \A p, q \in Pos :
           (/\ IsCall(p, "container") /\ IsCall(q, "container")
            /\ Encloses(At(q).cid, At(p).cid)
            /\ \E o \in OpenPos(At(p).cid) : o < ClosingStart(At(q).cid)) =>
               p < q

\* the handlers of a nested container and of its enclosing record type have
\* been called and the library is returned
C6_NestedAndEnclosingHandlersCalled ==
    /\ pc = "returned"
    /\ \E p, q \in Pos :
           /\ p < q
           /\ IsCall(p, "container") /\ IsCall(q, "container")
           /\ Encloses(At(q).cid, At(p).cid)
           /\ At(q).ext > 1

\* C6 as stated: every completion handler of a nested container is called
\* before any completion handler of its enclosing container
C6_NestedBeforeEnclosing ==
    \A p, q \in Pos :
        (/\ IsCall(p, "container") /\ IsCall(q, "container")
         /\ Encloses(At(q).cid, At(p).cid)) => p < q

-----------------------------------------------------------------------------
(* C7 *)

AddCalls == {p \in Pos : At(p).t = "addRecordType"}

\* the call at p was refused with a usage error
Refused(p) ==
    /\ p < Len(ctx.log)
    /\ At(p + 1).t = "throw"
    /\ At(p + 1).q \in {"Wrong invocation.", "already exists."}

\* library completion was in progress at p
Completing(p) ==
    /\ \E q \in 1..p : IsCall(q, "library")
    /\ \A f \in FixpointAt : p < f

\* C7: ctx.addRecordType(name, def) succeeds exactly when it is called while
\* library completion is in progress and the library has no record type of
\* that name; otherwise it throws a usage error and the record types of the
\* library are what they were at the call.
C7_AddRecordTypeGuard ==
    \A p \in AddCalls :
        LET e == At(p)
            allowed == e.arg[1] /\ ~e.arg[2]
        IN  /\ e.arg[1] <=> Completing(p)
            /\ e.arg[2] <=> e.name \in Range(e.res)
            /\ allowed <=> ~Refused(p)
            /\ Refused(p) =>
                   /\ pc = "thrown"
                   /\ ctx.recordTypes.names = e.res
                   /\ RecordTypeNames = Range(e.res)
                   /\ At(p + 1).q = IF ~e.arg[1] THEN "Wrong invocation."
                                    ELSE "already exists."
            /\ (allowed /\ pc /= "thrown") => e.name \in RecordTypeNames

\* addRecordType was called during library completion with the name of a
\* record type of the library, and threw
C7_AddRecordTypeRefusedForExistingName ==
    /\ pc = "thrown"
    /\ \E p \in AddCalls : At(p).arg[1] /\ At(p).arg[2] /\ Refused(p)

-----------------------------------------------------------------------------
(* C8 *)

\* C8: a throw from a hook, a handler, a validator or the construction ends
\* the build at once: nothing is invoked or registered after it, buildLibrary
\* does not go on and no library is returned.
C8_ThrowAborts ==
    /\ \A p \in Pos : At(p).t = "throw" => p = Len(ctx.log)
    /\ (ctx.err /= "") <=> (pc = "thrown")
    /\ (\E p \in Pos : At(p).t = "throw") <=> (pc = "thrown")
    /\ pc = "thrown" => ~ENABLED Next

\* an extension threw while a registered handler or validator was waiting
C8_ThrownWithHandlersWaiting ==
    /\ pc = "thrown"
    /\ ctx.err = "extension error"
    /\ \E g \in Pos :
           /\ At(g).t = "reg"
           /\ \A p \in Pos : At(p).t = "call" => At(p).id /= At(g).id

-----------------------------------------------------------------------------
(* C9 *)

\* the extension called name has the hook for this kind of object
HasHook(name, kind) ==
    CASE kind = "library" ->
            name /= "Core" /\ Ext(name).extendRecordTypesLibrary /= None
      [] kind = "container" ->
            name = "Core" \/ Ext(name).extendPropertiesContainer /= None
      [] kind = "property" ->
            name = "Core" \/ Ext(name).extendPropertyDescriptor /= None

\* the hook returns for one object among the first n entries of the trace
HookPos(kind, c, name, n) ==
    {p \in 1..n : /\ At(p).t = "hook" /\ At(p).q = kind
                  /\ At(p).cid = c /\ At(p).name = name}

\* the object stored at p is what the last hook returned, and every
\* extension that has the hook was given the object
StoredIsLastReturned(kind, c, name, p, stored) ==
    LET hooks == HookPos(kind, c, name, p)
    IN  /\ {At(h).ext : h \in hooks}
               = {i \in 1..Len(ctx.extensions) : HasHook(ctx.extensions[i], kind)}
        /\ IF hooks = {} THEN stored = <<>>
           ELSE stored = At(Max(hooks)).res

\* C9: the hooks for an object are applied in the order of the extensions,
\* the core extension first; each hook is given the object the previous hook
\* returned and the object the last hook returned is the one stored.
C9_HooksInExtensionOrder ==
    /\ factoryExtensions[1] = "Core"
    /\ ctx.extensions[1] = "Core"
    /\ pc \notin {"with", "buildLibrary"} => ctx.extensions = factoryExtensions
    /\ \A p \in Pos :
           At(p).t = "hook" =>
               LET e == At(p)
                   prev == HookPos(e.q, e.cid, e.name, p - 1)
               IN  IF prev = {} THEN e.arg = <<>>
                   ELSE /\ At(Max(prev)).ext < e.ext
                        /\ e.arg = At(Max(prev)).res
    /\ \A p \in Pos :
           /\ At(p).t = "prop" =>
                  StoredIsLastReturned("property", At(p).cid, At(p).name, p,
                                       At(p).res)
           /\ At(p).t = "ret" =>
                  StoredIsLastReturned("container", At(p).cid, "", p, At(p).res)
    /\ pc \notin {"with", "buildLibrary", "thrown"} =>
           StoredIsLastReturned("library", NoCid, "", Len(ctx.log),
                                ctx.recordTypes.wraps)
    /\ pc = "returned" =>
           \A p \in Pos :
               /\ At(p).t = "prop" =>
                      PropertyOf(ctx, At(p).cid, At(p).name).wraps = At(p).res
               /\ At(p).t = "ret" =>
                      ContainerOf(ctx, At(p).cid).wraps = At(p).res

\* a returned library, one of whose properties two extensions have replaced
C9_PropertyReplacedTwice ==
    /\ pc = "returned"
    /\ \E p \in Pos : At(p).t = "prop" /\ Len(At(p).res) >= 2
    /\ Len(ctx.recordTypes.wraps) >= 1

-----------------------------------------------------------------------------
(* C10 *)

\* C10: the extension list of the factory with() returns never contains the
\* same extension twice.
C10_NoDuplicateExtensions ==
    (pc /= "with" /\ NoDuplicates(withArgs)) => NoDuplicates(factoryExtensions)

-----------------------------------------------------------------------------
(* C11 *)

\* the definitions of the containers of a definition: the definition itself,
\* its nested object properties and its subtypes, at any depth
RECURSIVE ContainerDefs(_)
ContainerDefs(def) ==
    {def}
    \cup (IF def.properties = None THEN {}
          ELSE UNION {ContainerDefs(e.d) :
                         e \in {x \in Range(def.properties[1]) :
                                    x.d.properties /= None \/ x.d.subtypes /= None}})
    \cup (IF def.subtypes = None THEN {}
          ELSE UNION {ContainerDefs(e.d) : e \in Range(def.subtypes[1])})

\* the property definitions of a container definition
PropertyDefsOf(def) ==
    IF def.properties = None THEN {} ELSE Range(def.properties[1])

\* a view that names no property of its container, names a view, or has a
\* properties or subtypes attribute
BadView(def, e) ==
    /\ e.d.viewOf /= UNDEF
    /\ \/ \A b \in PropertyDefsOf(def) : b.n /= e.d.viewOf
       \/ \E b \in PropertyDefsOf(def) : b.n = e.d.viewOf /\ b.d.viewOf /= UNDEF
       \/ e.d.properties /= None
       \/ e.d.subtypes /= None

HasBadView ==
    \E k \in 1..Len(libraryDef) :
        \E def \in ContainerDefs(libraryDef[k].d) :
            \E e \in PropertyDefsOf(def) : BadView(def, e)

\* the errors thrown by the JavaScript runtime, not by the library
RuntimeErrors ==
    {"TypeError: Object prototype may only be an Object or null."}

\* C11: a view property whose viewOf names a property that does not exist in
\* its container, or names a view, or whose definition has a properties or a
\* subtypes attribute, makes buildLibrary throw a definition error: no library
\* is returned and the error thrown is an error of the library.
C11_BadViewThrowsDefinitionError ==
    HasBadView =>
        /\ pc /= "returned"
        /\ ctx.err \notin RuntimeErrors

-----------------------------------------------------------------------------
(* C12 *)

\* container c and the containers nested in it
RECURSIVE StoredContainers(_)
StoredContainers(c) ==
    {c} \cup UNION {IF c.propertyDescs[p].nestedProperties.k = "own"
                    THEN StoredContainers(c.propertyDescs[p].nestedProperties.c)
                    ELSE {} : p \in DOMAIN c.propertyDescs}

\* every container of the library
LibraryContainers ==
    UNION {StoredContainers(ctx.recordTypes.recordTypeDescs[n]) :
               n \in RecordTypeNames}

\* the views of container c
ViewsOf(c) ==
    {p \in DOMAIN c.propertyDescs : c.propertyDescs[p].viewOfDesc /= UNDEF}

\* the definition of property p as it is written in the definition of c
DeclaredDef(c, p) ==
    (CHOOSE e \in PropertyDefsOf(c.definition) : e.n = p).d

\* the value type attributes of two descriptors are equal
SameValueType(d, b) ==
    /\ d.scalarValueType = b.scalarValueType
    /\ d.refTarget = b.refTarget
    /\ d.isScalar = b.isScalar /\ d.isArray = b.isArray /\ d.isMap = b.isMap

\* the optionality a definition without the optional attribute gets
DefaultOptional(d) == IF d.isScalar THEN "false" ELSE "true"

\* the base of a view is a non-view property of the same container, another
\* descriptor than the view, and the view's viewOfDesc
ViewHasBase(c, p) ==
    LET d == c.propertyDescs[p]
    IN  /\ d.viewOfDesc = DeclaredDef(c, p).viewOf
        /\ hasProperty(c, d.viewOfDesc)
        /\ d.viewOfDesc /= p
        /\ c.propertyDescs[d.viewOfDesc].viewOfDesc = UNDEF
        /\ c.propertyDescs[d.viewOfDesc].container = d.container

\* the value type of a view is its own if it has one, else that of its base
ViewValueType(c, p) ==
    LET d == c.propertyDescs[p]
        def == DeclaredDef(c, p)
        base == c.propertyDescs[d.viewOfDesc]
    IN  IF def.valueType = <<>> THEN SameValueType(d, base)
        ELSE /\ d.scalarValueType = VALUE_TYPE_RE(def.valueType).type
             /\ d.isArray = (Last(def.valueType) = "[]")
             /\ d.isMap = (Last(def.valueType) = "{}")

\* every view is stored after every non-view property of its container
ViewsAfterNonViews ==
    \A p, q \in Pos :
        (/\ At(p).t = "prop" /\ At(p).q = "declared"
         /\ At(q).t = "prop" /\ At(q).q = "view"
         /\ At(p).cid = At(q).cid) => p < q

\* C12: a view b of a is another descriptor than a, is a view, and its
\* viewOfDesc is a's descriptor; its value type and cardinality are a's unless
\* the view definition has a valueType, its id role is a's unless the view has
\* a role, and its optionality is the view's optional attribute, else a's
\* optional attribute, else the default of the view's own cardinality; all
\* non-view properties of a container are built before any view, so this
\* holds wherever the view is declared.
C12_ViewInheritsFromBase ==
    /\ ViewsAfterNonViews
    /\ pc = "returned" =>
           \A c \in LibraryContainers :
               \A p \in ViewsOf(c) :
                   LET d == c.propertyDescs[p]
                       def == DeclaredDef(c, p)
                       base == c.propertyDescs[d.viewOfDesc]
                   IN  /\ ViewHasBase(c, p)
                       /\ ViewValueType(c, p)
                       /\ def.role = UNDEF => d.isId = base.isId
                       /\ def.role /= UNDEF => d.isId = (def.role = "id")
                       /\ d.optional =
                              IF def.optional /= UNDEF THEN def.optional
                              ELSE IF base.definition.optional /= UNDEF
                              THEN base.optional
                              ELSE DefaultOptional(d)
                       /\ (def.optional = UNDEF /\ def.valueType = <<>>) =>
                              d.optional = base.optional

\* a returned library with a view that is declared before its base and
\* overrides one attribute, the others being those of the base
C12_ViewDeclaredBeforeBase ==
    /\ pc = "returned"
    /\ \E c \in LibraryContainers :
           \E p \in ViewsOf(c) :
               LET names == EntryNames(c.definition.properties)
                   d == c.propertyDescs[p]
               IN  /\ IndexOf(names, p) < IndexOf(names, d.viewOfDesc)
                   /\ DeclaredDef(c, p).optional /= UNDEF
                   /\ d.optional /= c.propertyDescs[d.viewOfDesc].optional
                   /\ SameValueType(d, c.propertyDescs[d.viewOfDesc])

\* C12 as stated: the optionality of a view that does not override it is
\* that of its base
C12_OptionalityOfBase ==
    pc = "returned" =>
        \A c \in LibraryContainers :
            \A p \in ViewsOf(c) :
                DeclaredDef(c, p).optional = UNDEF =>
                    c.propertyDescs[p].optional
                        = c.propertyDescs[c.propertyDescs[p].viewOfDesc].optional

-----------------------------------------------------------------------------
(* C13 *)

\* the definition of the subtype called n of polymorphic container c
SubtypeDef(c, n) == (CHOOSE e \in Range(c.definition.subtypes[1]) : e.n = n).d

\* the property n of c is the pseudo-property of the subtype called n: an
\* optional scalar nested object whose container has the subtype's properties
IsSubtypeProperty(c, n) ==
    /\ hasProperty(c, n)
    /\ LET d == c.propertyDescs[n]
       IN  /\ d.subtype
           /\ d.isScalar /\ ~d.isArray /\ ~d.isMap
           /\ TruthyFlag(d.optional)
           /\ d.scalarValueType = "object"
           /\ d.nestedProperties.k = "own"
           /\ d.nestedProperties.c.nestedPath = Append(c.nestedPath, n)
           /\ d.nestedProperties.c.propNames
                  = EntryNames(SubtypeDef(c, n).properties)
           /\ \A x \in Range(d.nestedProperties.c.propNames) :
                  hasProperty(d.nestedProperties.c, x)

\* C13: in a returned library the subtypes of a polymorphic object container
\* are exactly the keys of the subtypes map of its definition, in the order of
\* the definition, and each of them names a derived property with isSubtype()
\* true that is an optional scalar property of value type object whose nested
\* container holds the properties of that subtype.
C13_SubtypesOfPolymorphicObject ==
    pc = "returned" =>
        \A c \in LibraryContainers :
            c.isPolymorphObject =>
                /\ c.subtypes = EntryNames(c.definition.subtypes)
                /\ \A n \in Range(c.subtypes) : IsSubtypeProperty(c, n)
                /\ \A n \in DOMAIN c.propertyDescs :
                       c.propertyDescs[n].subtype => n \in Range(c.subtypes)

\* a returned polymorphic record type with two subtypes, the second of them
\* defined first, one of them defined as a required array
C13_TwoSubtypesReturned ==
    /\ pc = "returned"
    /\ \E c \in LibraryContainers :
           /\ c.isPolymorphObject
           /\ c.nestedPath = <<>>
           /\ c.subtypes = <<"S2", "S1">>
           /\ SubtypeDef(c, "S1").optional = "false"

-----------------------------------------------------------------------------
(* C14 *)

\* the properties of c that are its type property
TypeProperties(c) ==
    {n \in DOMAIN c.propertyDescs : c.propertyDescs[n].polymorphObjectType}

-----------------------------------------------------------------------------
(* C15 *)

\* the nested object properties of the library that own their container
NestedObjects ==
    {d \in LibraryDescs :
        d.scalarValueType = "object" /\ d.nestedProperties.k = "own"}

\* C15: in every returned library the nested container of an array of
\* objects has an id property and the nested container of a scalar object
\* has none.
C15_NestedObjectIds ==
    pc = "returned" =>
        \A d \in NestedObjects :
            /\ d.isArray => d.nestedProperties.c.idPropName /= UNDEF
            /\ d.isScalar => d.nestedProperties.c.idPropName = UNDEF

-----------------------------------------------------------------------------
(* C16 *)

\* the names a reference specifier is built from
TargetNames == {"A", "B", "C", "Z"}

\* the specifier built from scalar type t (target name T for a reference)
\* and a collection suffix
Specifier(t, T, suf) ==
    (IF t = "ref" THEN <<"ref", "(", T, ")">> ELSE <<t>>) \o suf

\* the reference targets of the grammar: one name, or alternatives
TargetSpecs ==
    {<<n>> : n \in TargetNames}
    \cup {<<a, "|", b>> : a \in TargetNames, b \in TargetNames}

\* the specifiers of the grammar
Grammar ==
    {<<t>> \o suf : t \in SimpleTypes, suf \in Suffixes}
    \cup {<<"ref", "(">> \o T \o <<")">> \o suf :
              T \in TargetSpecs, suf \in Suffixes}

\* the non-view properties of record type rt named n, at any depth, whose
\* value type is outside the grammar
OutsideGrammar(rt, n) ==
    \E k \in 1..Len(libraryDef) :
        /\ libraryDef[k].n = rt
        /\ \E def \in ContainerDefs(libraryDef[k].d) :
               \E e \in PropertyDefsOf(def) :
                   /\ e.n = n
                   /\ e.d.viewOf = UNDEF
                   /\ e.d.valueType \notin Grammar

InvalidValueType == "has missing or invalid valueType attribute."

\* C16: a property whose specifier is built from a scalar type of string,
\* number, boolean, datetime, object, ref(T) and a suffix of none, [], {} has
\* that scalar type (and reference target T), and exactly one of isScalar,
\* isArray, isMap, the one of the suffix; a specifier outside the grammar
\* makes buildLibrary throw an error that names the record type and the
\* property, and no specifier of the grammar is rejected.
C16_ValueTypeRoundTrip ==
    /\ \A d \in LibraryDescs :
           \A t \in SimpleTypes \cup {"ref"}, T \in TargetNames, suf \in Suffixes :
               d.definition.valueType = Specifier(t, T, suf) =>
                   /\ d.scalarValueType = t
                   /\ (t = "ref") => (d.refTarget = <<T>>)
                   /\ d.isScalar <=> (suf = <<>>)
                   /\ d.isArray <=> (suf = <<"[]">>)
                   /\ d.isMap <=> (suf = <<"{}">>)
    /\ (\E k \in 1..Len(libraryDef) :
            \E n \in {"f", "bad"} : OutsideGrammar(libraryDef[k].n, n))
           => /\ pc /= "returned"
              /\ ctx.err \in {"", InvalidValueType}
    /\ \A p \in Pos :
           (At(p).t = "throw" /\ At(p).q = InvalidValueType)
               => OutsideGrammar(At(p).cid.rt, At(p).name)

\* a returned library with a map of references to B
C16_MapOfReferencesParsed ==
    /\ pc = "returned"
    /\ \E d \in LibraryDescs :
           /\ d.definition.valueType = <<"ref", "(", "B", ")", "{}">>
           /\ d.scalarValueType = "ref"
           /\ d.refTarget = <<"B">>
           /\ d.isMap

\* a build that rejected a specifier outside the grammar
C16_SpecifierRejected ==
    /\ pc = "thrown"
    /\ ctx.err = InvalidValueType
    /\ OutsideGrammar("A", "f")

-----------------------------------------------------------------------------
(* Property pointer calls *)

\* the value a record holds at a path of keys; undefined where there is none
\* a token of a path as a key of obj
KeyIn(obj, token) ==
    Key(token, IF obj.k = "array" /\ token \in DOMAIN Indices
               THEN Indices[token] ELSE -1)

RECURSIVE ValueAt(_, _)
ValueAt(obj, path) ==
    IF path = <<>> THEN obj
    ELSE ValueAt(GetProperty(obj, KeyIn(obj, path[1])), Tail(path))

\* the errors of parse: the pointer is not a pointer of the record type
ParseErrors ==
    {"unexpected dash for an array index.",
     "dash not allowed for an array index in this pointer.",
     "invalid array index.", "does not have nested elements.",
     "no such property.", "Cannot read properties of undefined."}

\* method m was called on a parsed pointer
PointerCalled(m) == invocation.method = m /\ outcome.err.msg \notin ParseErrors

\* the array and map properties of record type R and those of nested objects
ArrayProperties == {<<"tags">>, <<"items">>, <<"address", "lines">>}

MapProperties == {<<"m">>, <<"mo">>}

ObjectCollections == {<<"items">>, <<"mo">>}

\* the pointer of the call points at an element of a collection in cs
ElementOf(cs) == Len(invocation.pointer) >= 2 /\ Front(invocation.pointer) \in cs

\* a value addValue and replaceValue accept for the pointer of the call
AcceptedValue ==
    /\ invocation.value /= Undefined
    /\ ~(invocation.value = Null /\ ElementOf(ObjectCollections))

\* the call is a write of an accepted value through a parsed pointer
Written == (PointerCalled("addValue") \/ PointerCalled("replaceValue")) /\ AcceptedValue

\* the call threw the error of a value that cannot be reached
Unreachable ==
    outcome.err.type = "X2DataError" /\ outcome.err.msg = "No property value at."

-----------------------------------------------------------------------------
(* C17 *)

\* the pointer of the call goes through the scalar nested object address,
\* which the record does not have
ThroughAbsentAddress ==
    /\ Len(invocation.pointer) >= 2
    /\ invocation.pointer[1] = "address"
    /\ Nullish(ValueAt(invocation.record, <<"address">>))

\* C17 as stated: with address absent, getValue of /address/street throws a
\* reachability error and addValue creates address and sets street in it.
C17_AddValueCreatesObject ==
    (invocation.pointer = <<"address", "street">> /\ ThroughAbsentAddress) =>
        /\ PointerCalled("getValue") => Unreachable
        /\ (PointerCalled("addValue") /\ AcceptedValue) =>
               /\ outcome.err = NoError
               /\ ValueAt(record, <<"address">>).k = "object"
               /\ ValueAt(record, <<"address", "street">>) = invocation.value

\* C17: with the scalar nested object address absent from the record,
\* getValue, addValue and replaceValue through a pointer below address all
\* throw the reachability error for address and leave the record as it was.
C17_AbsentObjectIsNotCreated ==
    ThroughAbsentAddress =>
        /\ (PointerCalled("getValue") \/ Written) =>
               /\ Unreachable
               /\ outcome.err.at = <<"address">>
               /\ record = invocation.record

\* addValue of /address/street on a record without address threw
C17_AddValueBelowAbsentAddress ==
    /\ PointerCalled("addValue")
    /\ AcceptedValue
    /\ invocation.pointer = <<"address", "street">>
    /\ ThroughAbsentAddress
    /\ Unreachable
    /\ "address" \notin DOMAIN record.v

-----------------------------------------------------------------------------
(* C18 *)

\* the collection property whose element the pointer of the call points at
Collection == Front(invocation.pointer)

\* the pointer of the call points at an element of a collection that the
\* record, which has the object the collection belongs to, does not have
ElementOfAbsentCollection ==
    /\ ElementOf(ArrayProperties \cup MapProperties)
    /\ ValueAt(invocation.record, Front(Collection)).k = "object"
    /\ Nullish(ValueAt(invocation.record, Collection))

\* C18: a write to an element of an array or map that is absent from its
\* present parent object creates the empty array or map in the record and
\* stores the value in it (for an array: addValue at the append marker); a
\* write below more than one missing level raises a reachability error and
\* creates nothing.
C18_AbsentCollectionCreated ==
    /\ (Written /\ ElementOfAbsentCollection /\ Collection \in MapProperties) =>
           /\ outcome.err = NoError
           /\ ValueAt(record, Collection) =
                  Object(Last(invocation.pointer) :> invocation.value)
    /\ (PointerCalled("addValue") /\ AcceptedValue /\ ElementOfAbsentCollection
            /\ Collection \in ArrayProperties
            /\ Last(invocation.pointer) = "-") =>
           /\ outcome.err = NoError
           /\ ValueAt(record, Collection) = Array(<<invocation.value>>)
    /\ (Written /\ ElementOf(ArrayProperties \cup MapProperties)
            /\ Len(Collection) >= 2
            /\ Nullish(ValueAt(invocation.record, Front(Collection)))) =>
           /\ Unreachable
           /\ record = invocation.record

-----------------------------------------------------------------------------
(* C19 *)

\* the elements of the array the pointer of the call points into, in the
\* record given to the call and in the record after it
ElementsBefore == ValueAt(invocation.record, Collection).v.e

ElementsAfter == ValueAt(record, Collection).v.e

\* the pointer of the call points at an element of an array the record has
ElementOfPresentArray ==
    /\ ElementOf(ArrayProperties)
    /\ ValueAt(invocation.record, Collection).k = "array"

\* record r with the value at path replaced by val
RECURSIVE With(_, _, _)
With(r, path, val) ==
    IF path = <<>> THEN val
    ELSE SetProperty(r, KeyIn(r, path[1]),
                     With(GetProperty(r, KeyIn(r, path[1])), Tail(path), val))

\* C19: addValue through a pointer that ends in the append marker, on an
\* array the record has, appends the value: the length grows by one, every
\* element keeps its index and nothing else in the record changes;
\* replaceValue through the same pointer throws a usage error and changes
\* nothing.
C19_AppendMarker ==
    (ElementOfPresentArray /\ Last(invocation.pointer) = "-" /\ AcceptedValue) =>
        /\ PointerCalled("addValue") =>
               /\ outcome.err = NoError
               /\ Len(ElementsAfter) = Len(ElementsBefore) + 1
               /\ \A j \in 1..Len(ElementsBefore) :
                      ElementsAfter[j] = ElementsBefore[j]
               /\ Last(ElementsAfter) = invocation.value
               /\ record = With(invocation.record, Collection,
                                ValueAt(record, Collection))
        /\ PointerCalled("replaceValue") =>
               /\ outcome.err.type = "X2UsageError"
               /\ record = invocation.record

\* a value appended to an array of two elements
C19_AppendedToTwoElements ==
    /\ PointerCalled("addValue")
    /\ invocation.pointer = <<"tags", "-">>
    /\ ValueAt(invocation.record, <<"tags">>) = Array(<<String("a"), String("b")>>)
    /\ outcome.err = NoError
    /\ ValueAt(record, <<"tags">>) =
           Array(<<String("a"), String("b"), invocation.value>>)

-----------------------------------------------------------------------------
(* C20 *)

\* the index the pointer of the call ends in
Index == Indices[Last(invocation.pointer)]

\* the pointer of the call ends in an index of an array the record has
IndexOfPresentArray ==
    /\ ElementOfPresentArray
    /\ Last(invocation.pointer) \in DOMAIN Indices

\* C20: on a pointer to index i of an array the record has, with i below the
\* length addValue inserts the value at i and moves the elements from i on
\* up by one, and replaceValue overwrites the element at i and changes no
\* other; with i not below the length both throw the out-of-bounds data
\* error and leave the record as it was; a write through a pointer that does
\* not point at an array element, when it does not throw, assigns the value
\* to the key.
C20_InsertAndReplace ==
    /\ (IndexOfPresentArray /\ AcceptedValue /\ Index < Len(ElementsBefore)) =>
           /\ PointerCalled("addValue") =>
                  /\ outcome.err = NoError
                  /\ Len(ElementsAfter) = Len(ElementsBefore) + 1
                  /\ ElementsAfter[Index + 1] = invocation.value
                  /\ \A j \in 1..Len(ElementsBefore) :
                         ElementsAfter[IF j > Index THEN j + 1 ELSE j] =
                             ElementsBefore[j]
           /\ PointerCalled("replaceValue") =>
                  /\ outcome.err = NoError
                  /\ Len(ElementsAfter) = Len(ElementsBefore)
                  /\ \A j \in 1..Len(ElementsBefore) :
                         ElementsAfter[j] =
                             IF j = Index + 1 THEN invocation.value
                             ELSE ElementsBefore[j]
           /\ Written =>
                  record = With(invocation.record, Collection,
                                ValueAt(record, Collection))
    /\ (IndexOfPresentArray /\ Written /\ Index >= Len(ElementsBefore)) =>
           /\ outcome.err.type = "X2DataError"
           /\ outcome.err.msg = "Array index is out of bounds."
           /\ record = invocation.record
    /\ (Written /\ invocation.pointer /= <<>> /\ ~ElementOf(ArrayProperties)
            /\ outcome.err = NoError) =>
           /\ ValueAt(record, invocation.pointer) = invocation.value
           /\ ~Nullish(ValueAt(invocation.record, Front(invocation.pointer))) =>
                  record = With(invocation.record, invocation.pointer,
                                invocation.value)

\* a value inserted before the second of two elements
C20_InsertedInTheMiddle ==
    /\ PointerCalled("addValue")
    /\ invocation.pointer = <<"tags", "1">>
    /\ ValueAt(invocation.record, <<"tags">>) = Array(<<String("a"), String("b")>>)
    /\ invocation.value = String("v")
    /\ ValueAt(record, <<"tags">>) = Array(<<String("a"), String("v"), String("b")>>)

\* a write past the end of an array threw
C20_OutOfBounds ==
    /\ PointerCalled("replaceValue")
    /\ invocation.pointer = <<"tags", "2">>
    /\ ValueAt(invocation.record, <<"tags">>) = Array(<<String("a"), String("b")>>)
    /\ outcome.err.msg = "Array index is out of bounds."

-----------------------------------------------------------------------------
(* C21 *)

\* the object that has the key the pointer of the call ends in
Parent == Front(invocation.pointer)

\* C21: deleteValue on a pointer to index i below the length of an array the
\* record has removes the element: the array is one shorter, the elements
\* before i keep their index, those after i move down by one, no element is
\* undefined or null that was not before, and nothing else in the record
\* changes; deleteValue on a map element or an object property of an object
\* the record has removes the key and nothing else.
C21_DeleteRemoves ==
    PointerCalled("deleteValue") =>
        /\ (IndexOfPresentArray /\ Index < Len(ElementsBefore)) =>
               /\ outcome.err = NoError
               /\ Len(ElementsAfter) = Len(ElementsBefore) - 1
               /\ \A j \in 1..Len(ElementsBefore) :
                      j /= Index + 1 =>
                          ElementsAfter[IF j > Index + 1 THEN j - 1 ELSE j] =
                              ElementsBefore[j]
               /\ record = With(invocation.record, Collection,
                                ValueAt(record, Collection))
        /\ (invocation.pointer /= <<>> /\ ~ElementOf(ArrayProperties)
                /\ ValueAt(invocation.record, Parent).k = "object") =>
               /\ outcome.err = NoError
               /\ DOMAIN ValueAt(record, Parent).v =
                      (DOMAIN ValueAt(invocation.record, Parent).v)
                          \ {Last(invocation.pointer)}
               /\ \A x \in DOMAIN ValueAt(record, Parent).v :
                      ValueAt(record, Parent).v[x] =
                          ValueAt(invocation.record, Parent).v[x]
               /\ record = With(invocation.record, Parent,
                                ValueAt(record, Parent))

\* the first of two elements deleted
C21_FirstOfTwoDeleted ==
    /\ PointerCalled("deleteValue")
    /\ invocation.pointer = <<"tags", "0">>
    /\ ValueAt(invocation.record, <<"tags">>) = Array(<<String("a"), String("b")>>)
    /\ ValueAt(record, <<"tags">>) = Array(<<String("b")>>)

\* a key deleted from a map
C21_MapKeyDeleted ==
    /\ PointerCalled("deleteValue")
    /\ invocation.pointer = <<"m", "x">>
    /\ ValueAt(invocation.record, <<"m", "x">>) = String("mx")
    /\ ValueAt(record, <<"m">>) = Object(<<>>)

-----------------------------------------------------------------------------
(* C22 *)

\* the pointer of the call ends in a dash that follows an array property
DashPointer ==
    ElementOf(ArrayProperties) /\ Last(invocation.pointer) = "-"

\* the pointer of the call has a segment after a dash that follows an array
\* property
BeyondDash ==
    \E k \in 2..(Len(invocation.pointer) - 1) :
        /\ invocation.pointer[k] = "-"
        /\ SubSeq(invocation.pointer, 1, k - 1) \in ArrayProperties

\* a pointer method was called, whether or not the pointer was parsed
Invoked == invocation.method /= ""

\* the parts of C22 that do not concern getValue: a segment after the dash
\* and a dash with noDash are usage errors of parse; replaceValue and
\* deleteValue through a dash pointer throw (a usage error when the array is
\* there) and change nothing; addValue through it is accepted.
DashRules ==
    /\ (Invoked /\ BeyondDash /\ ~invocation.noDash) =>
           outcome.err = X2UsageError("unexpected dash for an array index.")
    /\ (Invoked /\ (DashPointer \/ BeyondDash) /\ invocation.noDash) =>
           outcome.err =
               X2UsageError("dash not allowed for an array index in this pointer.")
    /\ (DashPointer /\ ~invocation.noDash) =>
           /\ (PointerCalled("replaceValue") \/ PointerCalled("deleteValue")) =>
                  /\ outcome.err /= NoError
                  /\ ElementOfPresentArray => outcome.err.type = "X2UsageError"
                  /\ record = invocation.record
           /\ (PointerCalled("addValue") /\ AcceptedValue
                   /\ ElementOfPresentArray) =>
                  outcome.err = NoError

\* C22 as stated: besides the rules above, getValue through a dash pointer
\* fails.
C22_GetValueFailsOnDash ==
    /\ DashRules
    /\ (DashPointer /\ ~invocation.noDash /\ PointerCalled("getValue")) =>
           outcome.err /= NoError

\* C22: the dash is accepted only as the last segment of a pointer into an
\* array and not at all with noDash; replaceValue and deleteValue through a
\* dash pointer fail and addValue is accepted; getValue through a dash
\* pointer into an array the record has does not fail: it returns no value.
C22_DashOnlyForAddValue ==
    /\ DashRules
    /\ (DashPointer /\ ~invocation.noDash /\ PointerCalled("getValue")
            /\ ElementOfPresentArray) =>
           /\ outcome.err = NoError
           /\ Nullish(outcome.val)
           /\ record = invocation.record

\* deleteValue through a dash pointer into an array the record has threw
C22_DeleteThroughDash ==
    /\ PointerCalled("deleteValue")
    /\ DashPointer
    /\ ElementOfPresentArray
    /\ outcome.err = X2UsageError("May not delete dash index.")

\* getValue through a dash pointer into an array the record has returned
C22_GetValueThroughDash ==
    /\ PointerCalled("getValue")
    /\ DashPointer
    /\ ElementOfPresentArray
    /\ outcome.err = NoError

-----------------------------------------------------------------------------
(* C23 *)

\* C23: on the root pointer, parsed from the empty pointer, addValue,
\* replaceValue and deleteValue throw a usage error whatever the value and
\* leave the record unchanged, and getValue returns the record.
C23_RootPointer ==
    invocation.pointer = <<>> =>
        /\ (PointerCalled("addValue") \/ PointerCalled("replaceValue")) =>
               /\ outcome.err = X2UsageError("May not replace the whole record.")
               /\ record = invocation.record
        /\ PointerCalled("deleteValue") =>
               /\ outcome.err = X2UsageError("May not delete the whole record.")
               /\ record = invocation.record
        /\ PointerCalled("getValue") =>
               /\ outcome.err = NoError
               /\ outcome.val = invocation.record
               /\ record = invocation.record
        /\ Invoked => outcome.err.msg \notin ParseErrors

\* deleteValue on the root pointer of a record with an array threw
C23_DeleteOfRecordRefused ==
    /\ PointerCalled("deleteValue")
    /\ invocation.pointer = <<>>
    /\ ValueAt(invocation.record, <<"tags">>).k = "array"
    /\ outcome.err.type = "X2UsageError"
    /\ record = invocation.record

-----------------------------------------------------------------------------
(* C24 *)

NullRefused == X2UsageError("May not use null as a value.")

\* C24: addValue and replaceValue on a pointer other than the root throw a
\* usage error and leave the record unchanged when the value is undefined,
\* and when it is null and the pointer points at an element of an array or
\* map of objects; for every other pointer null is not refused, and where
\* the write succeeds through a pointer that is not a dash the record holds
\* null at the pointer.
C24_RefusedValues ==
    ((PointerCalled("addValue") \/ PointerCalled("replaceValue"))
        /\ invocation.pointer /= <<>>) =>
        /\ invocation.value = Undefined =>
               /\ outcome.err = X2UsageError("May not use undefined as a value.")
               /\ record = invocation.record
        /\ (invocation.value = Null /\ ElementOf(ObjectCollections)) =>
               /\ outcome.err = NullRefused
               /\ record = invocation.record
        /\ (invocation.value = Null /\ ~ElementOf(ObjectCollections)) =>
               /\ outcome.err /= NullRefused
               /\ (outcome.err = NoError /\ ~DashPointer) =>
                      ValueAt(record, invocation.pointer) = Null
        /\ invocation.value \notin {Undefined, Null} =>
               outcome.err.msg \notin
                   {"May not use undefined as a value.", NullRefused.msg}

\* null refused for an element of an array of objects
C24_NullElementRefused ==
    /\ PointerCalled("addValue")
    /\ invocation.pointer = <<"items", "-">>
    /\ invocation.value = Null
    /\ ValueAt(invocation.record, <<"items">>).k = "array"
    /\ outcome.err = NullRefused

\* null stored in an array of strings
C24_NullStored ==
    /\ PointerCalled("replaceValue")
    /\ invocation.pointer = <<"tags", "0">>
    /\ invocation.value = Null
    /\ outcome.err = NoError
    /\ ValueAt(record, <<"tags", "0">>) = Null

-----------------------------------------------------------------------------
(* C29 *)

\* C29: getValue leaves the record as it was, whether it returns or throws;
\* an array or object it materialises for an absent element is not in the
\* record.
C29_GetValueIsPure ==
    (Invoked /\ invocation.method = "getValue") => record = invocation.record

\* getValue below an element that a map of objects does not have returned
\* no value
C29_NavigatedAbsentElement ==
    /\ PointerCalled("getValue")
    /\ invocation.pointer = <<"mo", "b", "x">>
    /\ ValueAt(invocation.record, <<"mo">>).k = "object"
    /\ Nullish(ValueAt(invocation.record, <<"mo", "b">>))
    /\ outcome.err = NoError
    /\ Nullish(outcome.val)
    /\ record = invocation.record

-----------------------------------------------------------------------------
(* C30 *)

\* C30: when addValue, replaceValue or deleteValue throws, or parse throws
\* for its pointer, the record is as it was before the call.
C30_ThrowLeavesRecord ==
    (invocation.method \in {"addValue", "replaceValue", "deleteValue"}
        /\ outcome.err /= NoError) => record = invocation.record

\* addValue past the end of an array threw
C30_AddPastTheEnd ==
    /\ PointerCalled("addValue")
    /\ AcceptedValue
    /\ invocation.pointer = <<"tags", "2">>
    /\ ValueAt(invocation.record, <<"tags">>) = Array(<<String("a")>>)
    /\ outcome.err = X2DataError("Array index is out of bounds.")
    /\ record = invocation.record

-----------------------------------------------------------------------------
(* Hidden properties *)

\* the calls of ctx.addHiddenProperty
HiddenCalls == {p \in Pos : At(p).t = "addHiddenProperty"}

\* the call at p was made by a completion handler of the container At(p).cid
FromContainerHandler(p) == At(p).q = "containerHandler"

\* the container had a property of the name when the call at p was made
HadProperty(p) == At(p).arg[1]

\* the call at p threw the usage error msg
ThrewAt(p, msg) == At(p + 1).t = "throw" /\ At(p + 1).q = msg

\* the property of the call at p is in its container and is not listed
Hides(p) ==
    LET container == ContainerOf(ctx, At(p).cid)
    IN  /\ hasProperty(container, At(p).name)
        /\ At(p).name \notin Range(container.propNames)

\* a nested container was completed between the first handler of the
\* container of the call at p and the call
AfterNestedContainer(p) ==
    \E r \in Min(ContainerCalls(At(p).cid))..p : At(r).t = "ret"

\* what a call of ctx.addHiddenProperty does, for the calls in `calls`
HiddenPropertyRules(calls) ==
    \A p \in calls :
        /\ p < Len(ctx.log)
        /\ (FromContainerHandler(p) /\ ~HadProperty(p)) =>
              /\ ~ThrewAt(p, "Wrong invocation.")
              /\ ~ThrewAt(p, "already exists.")
              /\ pc = "returned" => Hides(p)
        /\ (FromContainerHandler(p) /\ HadProperty(p)) =>
              ThrewAt(p, "Wrong invocation.") \/ ThrewAt(p, "already exists.")
        /\ ~FromContainerHandler(p) => ThrewAt(p, "Wrong invocation.")

\* C28: a call of ctx.addHiddenProperty made by a completion handler of a
\* container adds the property to that container, where it is found by name
\* and is not listed among the property names, unless the container has the
\* name, and then the call throws a usage error; this holds whether or not a
\* nested container was completed earlier in the completion; a call made
\* outside the completion handlers throws the usage error 'Wrong invocation.'
C28_AddHiddenProperty == HiddenPropertyRules(HiddenCalls)

\* C28, for the calls made before any nested container was completed
C28_BeforeNestedContainer ==
    HiddenPropertyRules({p \in HiddenCalls :
        FromContainerHandler(p) => ~AfterNestedContainer(p)})

\* C28: after a nested container was completed in the completion of a
\* container, every call of ctx.addHiddenProperty throws 'Wrong invocation.'
C28_WrongInvocationAfterNested ==
    \A p \in HiddenCalls :
        (FromContainerHandler(p) /\ AfterNestedContainer(p)) =>
            ThrewAt(p, "Wrong invocation.")

\* a scalar hidden property was added and the library was returned
C28_HiddenAdded ==
    /\ pc = "returned"
    /\ \E p \in HiddenCalls : At(p).name = "h2" /\ Hides(p)

\* a handler's call was refused after a hidden object property was added
C28_RefusedAfterHiddenObject ==
    \E p \in HiddenCalls :
        /\ FromContainerHandler(p) /\ AfterNestedContainer(p)
        /\ At(p).name = "h2" /\ ~HadProperty(p)
        /\ ThrewAt(p, "Wrong invocation.")

-----------------------------------------------------------------------------
(* References to record types added during library completion *)

\* the record types the library-complete handlers of the extensions add
AddedByLibraryHandlers ==
    LET effects == UNION {Range(Ext(factoryExtensions[i]).libraryHandler) :
                              i \in 1..Len(factoryExtensions)}
    IN  {eff.n : eff \in {f \in effects : f.e = "addRecordType"}}

\* the build failed in the lookup of a reference target
LookupFailed ==
    pc = "thrown" /\ ctx.err = "unknown reference target record type."

\* C27: a reference to a record type that an extension adds with
\* ctx.addRecordType in a library-complete handler resolves: buildLibrary
\* never fails with an unknown target for such a record type, in whatever
\* order the handlers run.
C27_ReferenceToAddedTypeResolves ==
    LookupFailed => FailedTarget \notin AddedByLibraryHandlers

\* C27: the lookup of a reference of the library definition runs in the
\* first pass, before the handler of any extension has added a record type
C27_LookupBeforeAddition ==
    (LookupFailed /\ FailedTarget \in AddedByLibraryHandlers) => AddCalls = {}

\* C27: the references of a record type added during completion resolve
C27_ReferencesOfAddedTypeResolve ==
    (pc = "returned" /\ hasRecordType(ctx, "C")) =>
        PropertyOf(ctx, Cid("C", <<>>), "back").nestedProperties
            = RefNested("A")

\* the extension that adds C is installed and the reference to C is unknown
C27_AddedTargetUnknown ==
    /\ LookupFailed
    /\ FailedTarget = "C"
    /\ "Adder" \in Range(factoryExtensions)

\* a library with the added record type C was returned
C27_AddedTypeReturned ==
    /\ pc = "returned"
    /\ hasRecordType(ctx, "C")
    /\ "C" \notin DefinedNames

-----------------------------------------------------------------------------
(* Library completion handlers *)

\* the registrations made with ctx.onLibraryComplete
LibraryRegs == {p \in Pos : IsReg(p, "library")}

\* the calls of the handler registered at p
CallsOf(p) == {q \in Pos : IsCall(q, "library") /\ At(q).id = At(p).id}

\* the registration at p was made while a library handler was running
InLibraryHandler(p) == \E q \in 1..p : IsCall(q, "library")

\* C26: a handler registered with ctx.onLibraryComplete, be it from a hook,
\* from a library completion handler or during the addition of a record type
\* in the completion, is never called before its registration nor called
\* twice, and when completeLibrary returns every handler registered before
\* that has been called exactly once.
C26_LibraryHandlersCalledOnce ==
    /\ \A p \in LibraryRegs :
           /\ Cardinality(CallsOf(p)) <= 1
           /\ \A q \in CallsOf(p) : p < q
    /\ \A f \in FixpointAt :
           \A p \in LibraryRegs :
               p < f => \E q \in CallsOf(p) : q < f

\* a library was returned after handlers registered from a hook, from a
\* library handler and during the addition of record type C were called
C26_HandlersOfEveryOriginCalled ==
    /\ pc = "returned"
    /\ \E p \in LibraryRegs : ~InLibraryHandler(p) /\ CallsOf(p) /= {}
    /\ \E p \in LibraryRegs :
           /\ InLibraryHandler(p)
           /\ At(p).cid = NoCid
           /\ CallsOf(p) /= {}
    /\ \E p \in LibraryRegs :
           /\ InLibraryHandler(p)
           /\ At(p).cid = Cid("C", <<>>)
           /\ CallsOf(p) /= {}

-----------------------------------------------------------------------------
(* Termination of the completion loops *)

\* the loops: the one of completeLibrary and the one of completeContainer
\* for every container whose completion has started
Loops ==
    {<<"library", NoCid>>}
        \cup {<<"container", At(p).cid>> :
                  p \in {q \in Pos : At(q).t = "pass" /\ At(q).q = "container"}}

\* the event at p belongs to loop l
InLoop(p, l) == At(p).q = l[1] /\ (l[1] = "container" => At(p).cid = l[2])

\* the starts of the passes of loop l
PassesOf(l) == {p \in Pos : At(p).t = "pass" /\ InLoop(p, l)}

\* the calls of handlers made by loop l
HandlerCallsOf(l) == {p \in Pos : At(p).t = "call" /\ InLoop(p, l)}

\* the registrations of handlers for loop l
RegsOf(l) == {p \in Pos : At(p).t = "reg" /\ InLoop(p, l)}

\* where loop l ended and its function returned
EndsOf(l) ==
    IF l[1] = "library" THEN FixpointAt
    ELSE {p \in Pos : At(p).t = "ret" /\ At(p).cid = l[2]}

\* a loop goes on exactly as long as its last pass called a handler, and a
\* handler registered during a pass is called in the next pass
PassRules(l) ==
    /\ \A p1, p2 \in PassesOf(l) :
           p1 < p2 => \E q \in HandlerCallsOf(l) : p1 < q /\ q < p2
    /\ \A q \in HandlerCallsOf(l) :
           Cardinality({p \in PassesOf(l) : RegPos(At(q).id) < p /\ p < q}) = 1
    /\ \A f \in EndsOf(l) :
           /\ \E p \in PassesOf(l) :
                  /\ p < f
                  /\ \A q \in HandlerCallsOf(l) : q < p
           /\ \A r \in RegsOf(l) :
                  r < f => \E q \in HandlerCallsOf(l) :
                               At(q).id = At(r).id /\ q < f
           /\ (/\ RegsOf(l) /= {}
               /\ \A r \in RegsOf(l) : \A q \in HandlerCallsOf(l) : r < q)
                  => Cardinality(PassesOf(l)) = 2

\* completeContainer has returned or thrown for every container whose
\* completion has started
ContainersCompleted ==
    \A l \in Loops :
        (l[1] = "container" /\ ctx.err = "") => EndsOf(l) /= {}

\* completeLibrary: handlers.forEach goes on to the next handler, a step
\* of CompleteLibraryHandler
ForEachStep ==
    /\ pc = "completeLibrary"
    /\ handlerPos < Len(handlers)
    /\ handlerPos' = handlerPos + 1

\* the execution of completeLibrary: the loop and the forEach in it are
\* synchronous code, a step of theirs that can be taken is taken
LiveSpec ==
    /\ Spec
    /\ WF_vars(CompleteLibraryPass)
    /\ WF_handlerPos(ForEachStep)
    /\ WF_vars(CompleteLibraryReturn)

====
